---- MODULE Spec2Model ----
(***************************************************************************)
(* A model of the future cache of klmitch/fcache: the FCache container,    *)
(* its indexes, the per-slot entry handles with their waiter channels and  *)
(* cancel functions, the factory goroutines, the Futures handed to         *)
(* callers, and the operations Lookup, LookupFuture, Evict, Reindex and    *)
(* Clean.  Every action is one section of code that runs with the cache    *)
(* mutex held, or one channel operation of a waiter.                       *)
(*                                                                         *)
(* Pointers are natural numbers: 0 is the nil pointer, and a positive      *)
(* number is the address of an object in the heap of its type.  Objects    *)
(* that nothing refers to any more are dropped from the heaps.             *)
(***************************************************************************)
EXTENDS Integers, Sequences, FiniteSets, TLC

VARIABLES
    indexes,     \* fc.indexes: IndexId -> (KeyValue -> *entry), a Go map per index
    heap,        \* the entry structs: address -> [content, reqs, cancel]
    ents,        \* the Entry structs entry.content points to: address -> Entry
    chans,       \* the waiter channels, by cookie: [buf, closed, sends]
    reqCounter,  \* the process-wide cookie counter
    tasks,       \* the factory goroutines that have not returned, by the address of
                 \* the entry made with their context: [key, cancelled]
    futures,     \* the Futures callers hold and those of the Lookup calls that wait
    halt,        \* "none", or how the process stopped: "panic" or "deadlock"
    last         \* the operation that ran last and what it returned

vars == <<indexes, heap, ents, chans, reqCounter, tasks, futures, halt, last>>

----------------------------------------------------------------------------
(* Bounds of the model *)

\* factory goroutines that have not returned, at any one time
MaxTasks == 2
\* Futures and waiting Lookup calls alive at any one time
MaxFutures == 2
\* the cookie counter stops here
MaxCookie == 2

----------------------------------------------------------------------------
(* Values *)

\* the nil pointer (*entry, *Entry, cancel function, channel)
Nil == 0
\* capacity of a waiter channel: make(chan Entry, 1)
ChanCap == 1

\* the indexes declared to New
Declared == {"A", "B"}
\* the index ids a caller may name; "U" is not declared
IndexIds == Declared \cup {"U"}
\* the key values a caller may name
KeyValues == {1, 2}
\* the nil interface value, as a key: what keyMap.new holds when never set
NilKey == 0

Key(i, k) == [Index |-> i, Key |-> k]
Keys == {Key(i, k) : i \in Declared, k \in KeyValues} \cup {Key("U", 1)}

\* Object and Error of an Entry; "nil" is the absent value
ErrAn == "AnError"
ErrPermanent == "PermanentError"
ErrCanceled == "context.Canceled"

\* IsPermanent that recognises no error as permanent
IsPermanentNever(err) == FALSE

\* IsPermanent: whether the error is a PermanentError
IsPermanent(err) == err = ErrPermanent

Entry(obj, err, keys) == [Object |-> obj, Error |-> err, Keys |-> keys]
\* the zero Entry, which a receive from a closed channel yields
ZeroEntry == Entry("nil", "nil", <<>>)

\* a Go map as a function: present keys are its DOMAIN
Has(m, k) == k \in DOMAIN m
Delete(m, k) == [x \in (DOMAIN m) \ {k} |-> m[x]]
Put(m, k, v) == (k :> v) @@ m
EmptyMap == [x \in {} |-> 0]
Restrict(m, keep) == [x \in (DOMAIN m) \cap keep |-> m[x]]

\* the smallest address not in use
Fresh(used) == CHOOSE n \in 1..(Cardinality(used) + 1) : n \notin used

----------------------------------------------------------------------------
(* The cache as the helpers see it: the part of the state that insert,     *)
(* complete, evict and remap read and write while the mutex is held.       *)
(*   ix: fc.indexes   hp: the entry structs   en: the Entry structs        *)
(*   ch: the waiter channels   tk: the factory contexts   halt             *)

Cache == [ix |-> indexes, hp |-> heap, en |-> ents, ch |-> chans, tk |-> tasks,
          halt |-> halt]

\* a nil pointer dereference, an index out of range, a send on a closed channel
Panic(st) == [st EXCEPT !.halt = "panic"]

\* idx.entries[k.Key] = v and delete(idx.entries, k.Key)
SetSlot(st, i, k, v) == [st EXCEPT !.ix[i] = Put(st.ix[i], k, v)]
\* delete(idx.entries, k.Key) that deletes nothing
DelSlotKeeps(st, i, k) == st
DelSlot(st, i, k) == [st EXCEPT !.ix[i] = Delete(st.ix[i], k)]

\* req <- *ent without the close(req) after it
SendNoClose(c, v) == [buf |-> Append(c.buf, v), closed |-> c.closed]

\* req <- Entry{}; close(req): the zero Entry is sent in place of *ent
SendCloseZero(c, v) == [buf |-> Append(c.buf, ZeroEntry), closed |-> TRUE]

\* what req <- v; close(req) does to one channel
SendClose(c, v) == [buf |-> Append(c.buf, v), closed |-> TRUE]
\* how that send ends: on a closed channel it panics, on a full one it blocks
SendStatus(c) ==
    IF c.closed THEN "panic" ELSE IF Len(c.buf) >= ChanCap THEN "deadlock" ELSE "none"

\* &entry{...} and &Entry{...}: the address the allocation returns
NewHandle(st) == Fresh(DOMAIN st.hp)
NewEntryAddr(st) == Fresh(DOMAIN st.en)
AllocEntry(st, v) == [st EXCEPT !.en = Put(st.en, NewEntryAddr(st), v)]

\* entry.complete that keeps the map of requests and the cancel function
completeKeepsReqs(st, h, e) ==
    IF h = Nil \/ e = Nil
    THEN [st |-> Panic(st), remove |-> FALSE]
    ELSE IF st.hp[h].content # Nil
    THEN [st |-> st, remove |-> FALSE]
    ELSE LET hd == st.hp[h]
             tk1 == IF hd.cancel /\ Has(st.tk, h)
                    THEN [st.tk EXCEPT ![h].cancelled = TRUE]
                    ELSE st.tk
             ch1 == [c \in DOMAIN st.ch |->
                       IF c \in hd.reqs THEN SendClose(st.ch[c], st.en[e]) ELSE st.ch[c]]
             hp1 == [st.hp EXCEPT ![h].content = e]
         IN [st |-> [st EXCEPT !.tk = tk1, !.ch = ch1, !.hp = hp1],
             remove |-> st.en[e].Error # "nil" /\ ~IsPermanent(st.en[e].Error)]

\* entry.complete that stores the Entry in an entry that is complete already
completeAgain(st, h, e) ==
    IF h = Nil \/ e = Nil
    THEN [st |-> Panic(st), remove |-> FALSE]
    ELSE LET hd == st.hp[h]
             tk1 == IF hd.cancel /\ Has(st.tk, h)
                    THEN [st.tk EXCEPT ![h].cancelled = TRUE]
                    ELSE st.tk
             ch1 == [c \in DOMAIN st.ch |->
                       IF c \in hd.reqs THEN SendClose(st.ch[c], st.en[e]) ELSE st.ch[c]]
             hp1 == [st.hp EXCEPT ![h] = [content |-> e, reqs |-> {}, cancel |-> FALSE]]
         IN [st |-> [st EXCEPT !.tk = tk1, !.ch = ch1, !.hp = hp1],
             remove |-> st.en[e].Error # "nil" /\ ~IsPermanent(st.en[e].Error)]

\* entry.complete without the call of e.cancel
completeNoCancel(st, h, e) ==
    IF h = Nil \/ e = Nil
    THEN [st |-> Panic(st), remove |-> FALSE]
    ELSE IF st.hp[h].content # Nil
    THEN [st |-> st, remove |-> FALSE]
    ELSE LET hd == st.hp[h]
             ch1 == [c \in DOMAIN st.ch |->
                       IF c \in hd.reqs THEN SendClose(st.ch[c], st.en[e]) ELSE st.ch[c]]
             hp1 == [st.hp EXCEPT ![h] = [content |-> e, reqs |-> {}, cancel |-> FALSE]]
         IN [st |-> [st EXCEPT !.ch = ch1, !.hp = hp1],
             remove |-> st.en[e].Error # "nil" /\ ~IsPermanent(st.en[e].Error)]

\* entry.complete: h is the receiver, e the *Entry passed
complete(st, h, e) ==
    IF h = Nil \/ e = Nil
    THEN [st |-> Panic(st), remove |-> FALSE]
    ELSE IF st.hp[h].content # Nil
    THEN [st |-> st, remove |-> FALSE]
    ELSE LET hd == st.hp[h]
             bad == {SendStatus(st.ch[c]) : c \in hd.reqs} \ {"none"}
             tk1 == IF hd.cancel /\ Has(st.tk, h)
                    THEN [st.tk EXCEPT ![h].cancelled = TRUE]
                    ELSE st.tk
             ch1 == [c \in DOMAIN st.ch |->
                       IF c \in hd.reqs THEN SendClose(st.ch[c], st.en[e]) ELSE st.ch[c]]
             hp1 == [st.hp EXCEPT ![h] = [content |-> e, reqs |-> {}, cancel |-> FALSE]]
             h1  == IF bad = {} THEN st.halt
                    ELSE IF "deadlock" \in bad THEN "deadlock" ELSE "panic"
         IN [st |-> [st EXCEPT !.tk = tk1, !.ch = ch1, !.hp = hp1, !.halt = h1],
             remove |-> st.en[e].Error # "nil" /\ ~IsPermanent(st.en[e].Error)]

\* the loop of insert over ent.Keys
RECURSIVE insertKeys(_, _, _, _)
insertKeys(st, keys, e, newE) ==
    IF keys = <<>> \/ st.halt # "none" THEN st
    ELSE LET k == Head(keys) IN
         IF ~Has(st.ix, k.Index)
         THEN insertKeys(st, Tail(keys), e, newE)
         ELSE IF Has(st.ix[k.Index], k.Key)
         THEN LET r == complete(st, st.ix[k.Index][k.Key], e) IN
              insertKeys(IF r.remove THEN DelSlot(r.st, k.Index, k.Key) ELSE r.st,
                         Tail(keys), e, newE)
         ELSE insertKeys(SetSlot(st, k.Index, k.Key, newE), Tail(keys), e, newE)

\* FCache.insert that stops after the first of ent.Keys
insertFirstKey(st, e) ==
    IF e = Nil
    THEN [st |-> Panic(st), newE |-> Nil]
    ELSE LET v == st.en[e]
             retain == v.Error = "nil" \/ IsPermanent(v.Error)
             newE == IF retain THEN NewHandle(st) ELSE Nil
             st0 == IF retain
                    THEN [st EXCEPT !.hp = Put(st.hp, newE,
                              [content |-> e, reqs |-> {}, cancel |-> FALSE])]
                    ELSE st
         IN [st |-> insertKeys(st0, SubSeq(v.Keys, 1, 1), e, newE), newE |-> newE]

\* FCache.insert: e is the *Entry; the result holds the *entry returned
insert(st, e) ==
    IF e = Nil
    THEN [st |-> Panic(st), newE |-> Nil]
    ELSE LET v == st.en[e]
             retain == v.Error = "nil" \/ IsPermanent(v.Error)
             newE == IF retain THEN NewHandle(st) ELSE Nil
             st0 == IF retain
                    THEN [st EXCEPT !.hp = Put(st.hp, newE,
                              [content |-> e, reqs |-> {}, cancel |-> FALSE])]
                    ELSE st
         IN [st |-> insertKeys(st0, v.Keys, e, newE), newE |-> newE]

\* FCache.evict that also clears entries that are not completed
RECURSIVE evictAlsoPending(_, _)
evictAlsoPending(st, keys) ==
    IF keys = <<>> \/ st.halt # "none" THEN st
    ELSE LET k == Head(keys) IN
         IF ~Has(st.ix, k.Index)
         THEN evictAlsoPending(st, Tail(keys))
         ELSE IF Has(st.ix[k.Index], k.Key)
         THEN LET h == st.ix[k.Index][k.Key] IN
              IF h = Nil THEN Panic(st)
              ELSE evictAlsoPending(DelSlot(st, k.Index, k.Key), Tail(keys))
         ELSE evictAlsoPending(st, Tail(keys))

\* FCache.evict
RECURSIVE evict(_, _)
evict(st, keys) ==
    IF keys = <<>> \/ st.halt # "none" THEN st
    ELSE LET k == Head(keys) IN
         IF ~Has(st.ix, k.Index)
         THEN evict(st, Tail(keys))
         ELSE IF Has(st.ix[k.Index], k.Key)
         THEN LET h == st.ix[k.Index][k.Key] IN
              IF h = Nil THEN Panic(st)
              ELSE IF st.hp[h].content # Nil
              THEN evict(DelSlot(st, k.Index, k.Key), Tail(keys))
              ELSE evict(st, Tail(keys))
         ELSE evict(st, Tail(keys))

\* entry.makeFuture without the test of e.content: a channel is always made
makeFutureAlways(st, cnt, h) ==
    IF h = Nil
    THEN [st |-> Panic(st), cnt |-> cnt, fut |-> <<>>]
    ELSE LET cookie == cnt + 1 IN
         [st |-> [st EXCEPT !.ch = Put(st.ch, cookie, [buf |-> <<>>, closed |-> FALSE]),
                            !.hp[h].reqs = st.hp[h].reqs \cup {cookie}],
          cnt |-> cookie,
          fut |-> <<[ent |-> h, result |-> cookie, cookie |-> cookie,
                     canceled |-> FALSE]>>]

\* entry.makeFuture: cnt is reqCounter; the result holds the Future's fields
makeFuture(st, cnt, h) ==
    IF h = Nil
    THEN [st |-> Panic(st), cnt |-> cnt, fut |-> <<>>]
    ELSE IF st.hp[h].content = Nil
    THEN LET cookie == cnt + 1 IN
         [st |-> [st EXCEPT !.ch = Put(st.ch, cookie, [buf |-> <<>>, closed |-> FALSE]),
                            !.hp[h].reqs = st.hp[h].reqs \cup {cookie}],
          cnt |-> cookie,
          fut |-> <<[ent |-> h, result |-> cookie, cookie |-> cookie,
                     canceled |-> FALSE]>>]
    ELSE [st |-> st, cnt |-> cnt,
          fut |-> <<[ent |-> h, result |-> Nil, cookie |-> 0, canceled |-> FALSE]>>]

----------------------------------------------------------------------------
(* Lookup options *)

ByKey(k) == [t |-> "ByKey", key |-> <<k>>, ent |-> <<>>]
ByEntry(e) == [t |-> "ByEntry", key |-> <<>>, ent |-> <<e>>]
SearchCache == [t |-> "SearchCache", key |-> <<>>, ent |-> <<>>]
WithContext == [t |-> "WithContext", key |-> <<>>, ent |-> <<>>]

\* apply in which the SearchCache option sets nothing
applyDropsSearchCache(opt, o) ==
    CASE opt.t = "ByEntry" ->
            IF o.key # <<>> THEN [o |-> o, err |-> "ErrDuplicateOption"]
            ELSE IF opt.ent[1].Keys = <<>> THEN [o |-> o, err |-> "panic"]
            ELSE [o |-> [o EXCEPT !.ent = opt.ent, !.key = <<opt.ent[1].Keys[1]>>],
                  err |-> "nil"]
      [] opt.t = "ByKey" ->
            IF o.key # <<>> THEN [o |-> o, err |-> "ErrDuplicateOption"]
            ELSE [o |-> [o EXCEPT !.key = opt.key], err |-> "nil"]
      [] opt.t = "SearchCache" ->
            [o |-> o, err |-> "nil"]
      [] opt.t = "WithContext" ->
            IF o.ctx # "nil" THEN [o |-> o, err |-> "ErrDuplicateOption"]
            ELSE [o |-> [o EXCEPT !.ctx = "user"], err |-> "nil"]

\* the apply method of each option: o is the lookupOptions built so far
apply(opt, o) ==
    CASE opt.t = "ByEntry" ->
            IF o.key # <<>> THEN [o |-> o, err |-> "ErrDuplicateOption"]
            ELSE IF opt.ent[1].Keys = <<>> THEN [o |-> o, err |-> "panic"]
            ELSE [o |-> [o EXCEPT !.ent = opt.ent, !.key = <<opt.ent[1].Keys[1]>>],
                  err |-> "nil"]
      [] opt.t = "ByKey" ->
            IF o.key # <<>> THEN [o |-> o, err |-> "ErrDuplicateOption"]
            ELSE [o |-> [o EXCEPT !.key = opt.key], err |-> "nil"]
      [] opt.t = "SearchCache" ->
            [o |-> [o EXCEPT !.only = TRUE], err |-> "nil"]
      [] opt.t = "WithContext" ->
            IF o.ctx # "nil" THEN [o |-> o, err |-> "ErrDuplicateOption"]
            ELSE [o |-> [o EXCEPT !.ctx = "user"], err |-> "nil"]

\* the zero lookupOptions, returned with an error
NoOptions == [ent |-> <<>>, key |-> <<>>, only |-> FALSE, ctx |-> "nil"]

RECURSIVE applyAll(_, _)
applyAll(opts, o) ==
    IF opts = <<>> THEN [o |-> o, err |-> "nil"]
    ELSE LET r == apply(Head(opts), o) IN
         IF r.err # "nil" THEN [o |-> NoOptions, err |-> r.err]
         ELSE applyAll(Tail(opts), r.o)

\* procLookupOpts: the result starts with ctx set to context.Background()
procLookupOpts(opts) ==
    LET r == applyAll(opts, [NoOptions EXCEPT !.ctx = "Background"]) IN
    IF r.err # "nil" THEN r
    ELSE IF r.o.key = <<>> THEN [o |-> NoOptions, err |-> "ErrNoKey"]
    ELSE r

----------------------------------------------------------------------------
(* lookup *)

\* newEntry with fc.manufacture called without go: lookup still holds the lock
\* that manufacture takes after the factory, so the cache is stuck
newEntrySync(st, key) ==
    LET h == NewHandle(st)
    IN [st EXCEPT !.hp = Put(st.hp, h, [content |-> Nil, reqs |-> {}, cancel |-> TRUE]),
                  !.tk = Put(st.tk, h, [key |-> key, cancelled |-> FALSE]),
                  !.ix[key.Index] = Put(st.ix[key.Index], key.Key, h),
                  !.halt = "deadlock"]

\* newEntry, idx.entries[o.key.Key] = ent and go fc.manufacture(ctx, key, factory)
newEntry(st, key) ==
    LET h == NewHandle(st)
    IN [st EXCEPT !.hp = Put(st.hp, h, [content |-> Nil, reqs |-> {}, cancel |-> TRUE]),
                  !.tk = Put(st.tk, h, [key |-> key, cancelled |-> FALSE]),
                  !.ix[key.Index] = Put(st.ix[key.Index], key.Key, h)]

NoFuture(st, cnt, err) == [st |-> st, cnt |-> cnt, err |-> err, fut |-> <<>>]
WithFuture(m) == [st |-> m.st, cnt |-> m.cnt, err |-> "nil", fut |-> m.fut]

\* FCache.lookup without the search for an entry already in the slot
lookupNoSearch(st, cnt, o) ==
    LET key == o.key[1] IN
    IF ~Has(st.ix, key.Index)
    THEN NoFuture(st, cnt, "ErrBadIndex")
    ELSE LET st1 == newEntry(st, key) IN
         WithFuture(makeFuture(st1, cnt, st1.ix[key.Index][key.Key]))

\* FCache.lookup: o is the lookupOptions; the result holds the Future or the error
lookup(st, cnt, o) ==
    LET key == o.key[1] IN
    IF ~Has(st.ix, key.Index)
    THEN NoFuture(st, cnt, "ErrBadIndex")
    ELSE IF ~Has(st.ix[key.Index], key.Key)
    THEN IF o.ent # <<>>
         THEN LET r == insert(AllocEntry(st, o.ent[1]), NewEntryAddr(st)) IN
              IF r.st.halt # "none" THEN NoFuture(r.st, cnt, "nil")
              ELSE WithFuture(makeFuture(r.st, cnt, r.newE))
         ELSE IF o.only
         THEN NoFuture(st, cnt, "ErrNotCached")
         ELSE LET st1 == newEntry(st, key) IN
              WithFuture(makeFuture(st1, cnt, st1.ix[key.Index][key.Key]))
    ELSE LET h == st.ix[key.Index][key.Key] IN
         IF h = Nil THEN NoFuture(Panic(st), cnt, "nil")
         ELSE IF st.hp[h].content = Nil /\ o.only
         THEN NoFuture(st, cnt, "ErrNotCached")
         ELSE WithFuture(makeFuture(st, cnt, h))

\* the locked read at the end of Future.WaitWithContext
ReadContent(st, h) ==
    IF st.hp[h].content = Nil
    THEN [obj |-> "nil", err |-> "ErrNotCached"]
    ELSE [obj |-> st.en[st.hp[h].content].Object, err |-> st.en[st.hp[h].content].Error]

----------------------------------------------------------------------------
(* Clean *)

Objects == "Objects"
Errors == "Errors"
Pending == "Pending"

\* procCleanOpts that never sets the pending flag
procCleanOptsNoPending(opts) ==
    IF Len(opts) <= 0
    THEN [objects |-> TRUE, errors |-> TRUE, pending |-> FALSE]
    ELSE [objects |-> \E n \in 1..Len(opts) : opts[n] = Objects,
          errors |-> \E n \in 1..Len(opts) : opts[n] = Errors,
          pending |-> FALSE]

\* procCleanOpts: opts is the list of CleanOptions passed
procCleanOpts(opts) ==
    IF Len(opts) <= 0
    THEN [objects |-> TRUE, errors |-> TRUE, pending |-> TRUE]
    ELSE [objects |-> \E n \in 1..Len(opts) : opts[n] = Objects,
          errors |-> \E n \in 1..Len(opts) : opts[n] = Errors,
          pending |-> \E n \in 1..Len(opts) : opts[n] = Pending]

\* the first loop of Clean over idx.entries: todo are the keys not yet visited,
\* toRemove the keys collected
RECURSIVE cleanScan(_, _, _, _, _)
cleanScan(st, i, todo, toRemove, o) ==
    IF todo = {} \/ st.halt # "none" THEN [st |-> st, toRemove |-> toRemove]
    ELSE LET k == CHOOSE x \in todo : TRUE
             h == st.ix[i][k]
         IN IF h = Nil THEN [st |-> Panic(st), toRemove |-> toRemove]
            ELSE IF st.hp[h].content = Nil
            THEN IF o.pending
                 THEN LET st1 == AllocEntry(st, Entry("nil", ErrCanceled, <<>>))
                          r == complete(st1, h, NewEntryAddr(st))
                      IN cleanScan(r.st, i, todo \ {k}, toRemove \cup {k}, o)
                 ELSE cleanScan(st, i, todo \ {k}, toRemove, o)
            ELSE IF o.objects /\ st.en[st.hp[h].content].Object # "nil"
            THEN cleanScan(st, i, todo \ {k}, toRemove \cup {k}, o)
            ELSE IF o.errors /\ st.en[st.hp[h].content].Error # "nil"
            THEN cleanScan(st, i, todo \ {k}, toRemove \cup {k}, o)
            ELSE cleanScan(st, i, todo \ {k}, toRemove, o)

\* the loop of Clean over fc.indexes
RECURSIVE cleanIndexes(_, _, _)
cleanIndexes(st, todo, o) ==
    IF todo = {} \/ st.halt # "none" THEN st
    ELSE LET i == CHOOSE x \in todo : TRUE
             r == cleanScan(st, i, DOMAIN st.ix[i], {}, o)
             st1 == IF r.st.halt # "none" THEN r.st
                    ELSE [r.st EXCEPT !.ix[i] =
                              Restrict(r.st.ix[i], (DOMAIN r.st.ix[i]) \ r.toRemove)]
         IN cleanIndexes(st1, todo \ {i}, o)

----------------------------------------------------------------------------
(* Reindex *)

\* reflect.DeepEqual that finds any two contents equal
DeepEqualAlways(st, e1, e2) == TRUE

\* reflect.DeepEqual of two *Entry
DeepEqual(st, e1, e2) ==
    IF e1 = Nil \/ e2 = Nil THEN e1 = e2 ELSE st.en[e1] = st.en[e2]

\* FCache.fillKeyMap: h is the entry, keys what is left of ent.content.Keys
RECURSIVE fillKeyMap(_, _, _, _)
fillKeyMap(st, h, keys, km) ==
    IF keys = <<>> THEN [km |-> km, err |-> "nil"]
    ELSE LET k == Head(keys) IN
         IF ~Has(st.ix, k.Index) THEN fillKeyMap(st, h, Tail(keys), km)
         ELSE IF Has(km, k.Index) THEN fillKeyMap(st, h, Tail(keys), km)
         ELSE IF ~Has(st.ix[k.Index], k.Key)
         THEN [km |-> EmptyMap, err |-> "ErrEntryNotFound"]
         ELSE IF st.ix[k.Index][k.Key] = Nil
         THEN [km |-> EmptyMap, err |-> "panic"]
         ELSE IF ~DeepEqual(st, st.hp[h].content, st.hp[st.ix[k.Index][k.Key]].content)
         THEN [km |-> EmptyMap, err |-> "ErrEntryNotFound"]
         ELSE fillKeyMap(st, h, Tail(keys),
                         Put(km, k.Index, [old |-> k.Key, new |-> NilKey, detect |-> TRUE]))

\* FCache.finishKeyMap: new is what is left of the new keys
RECURSIVE finishKeyMap(_, _)
finishKeyMap(km, new) ==
    IF new = <<>> THEN [km |-> km, err |-> "nil"]
    ELSE LET k == Head(new) IN
         IF ~Has(km, k.Index) THEN [km |-> km, err |-> "ErrIncongruentKeys"]
         ELSE IF ~km[k.Index].detect THEN [km |-> km, err |-> "ErrIncongruentKeys"]
         ELSE IF km[k.Index].old = k.Key
         THEN finishKeyMap(Delete(km, k.Index), Tail(new))
         ELSE finishKeyMap([km EXCEPT ![k.Index].new = k.Key, ![k.Index].detect = FALSE],
                           Tail(new))

\* the deferred e.complete(ent.content) calls of remap, last deferred first
RECURSIVE runDeferred(_, _, _)
runDeferred(st, deferred, e) ==
    IF deferred = <<>> \/ st.halt # "none" THEN st
    ELSE runDeferred(complete(st, deferred[Len(deferred)], e).st,
                     SubSeq(deferred, 1, Len(deferred) - 1), e)

\* the loop of remap over ent.content.Keys: n is the position, keys the new
\* list so far, deferred the squatters to complete on return
RECURSIVE remapKeys(_, _, _, _, _, _)
remapKeys(st, km, h, n, keys, deferred) ==
    LET old == st.en[st.hp[h].content].Keys IN
    IF st.halt # "none" THEN st
    ELSE IF n > Len(old)
    THEN runDeferred([st EXCEPT !.en[st.hp[h].content].Keys = keys],
                     deferred, st.hp[h].content)
    ELSE LET k == old[n] IN
         IF ~Has(km, k.Index)
         THEN remapKeys(st, km, h, n + 1, Append(keys, k), deferred)
         ELSE LET m == km[k.Index]
                  keys1 == Append(keys, Key(k.Index, m.new))
                  st1 == DelSlot(st, k.Index, m.old)
              IN IF Has(st1.ix[k.Index], m.new)
                 THEN LET e == st1.ix[k.Index][m.new] IN
                      IF e = Nil THEN Panic(st1)
                      ELSE IF st1.hp[e].content = Nil
                      THEN remapKeys(st1, km, h, n + 1, keys1, Append(deferred, e))
                      ELSE remapKeys(SetSlot(evict(st1, st1.en[st1.hp[e].content].Keys),
                                             k.Index, m.new, h),
                                     km, h, n + 1, keys1, deferred)
                 ELSE remapKeys(SetSlot(st1, k.Index, m.new, h),
                                km, h, n + 1, keys1, deferred)

\* remap that leaves the entry in the old slot of its first key as well
remapKeepsOld(st, km, h) ==
    LET r == remapKeys(st, km, h, 1, <<>>, <<>>)
        k == st.en[st.hp[h].content].Keys[1]
    IN IF r.halt = "none" /\ Has(km, k.Index)
       THEN SetSlot(r, k.Index, km[k.Index].old, h)
       ELSE r

\* FCache.remap
remap(st, km, h) == remapKeys(st, km, h, 1, <<>>, <<>>)

\* FCache.Reindex after procLookupOpts: the state it leaves and the error it returns
reindex(st, newKeys, o) ==
    LET key == o.key[1] IN
    IF ~Has(st.ix, key.Index) THEN [st |-> st, err |-> "ErrBadIndex"]
    ELSE IF ~Has(st.ix[key.Index], key.Key) THEN [st |-> st, err |-> "ErrNotCached"]
    ELSE LET h == st.ix[key.Index][key.Key] IN
         IF h = Nil THEN [st |-> Panic(st), err |-> "nil"]
         ELSE IF st.hp[h].content = Nil THEN [st |-> st, err |-> "ErrNotCached"]
         ELSE LET f == fillKeyMap(st, h, st.en[st.hp[h].content].Keys, EmptyMap) IN
              IF f.err = "panic" THEN [st |-> Panic(st), err |-> "nil"]
              ELSE IF f.err # "nil" THEN [st |-> st, err |-> f.err]
              ELSE LET g == finishKeyMap(f.km, newKeys) IN
                   IF g.err # "nil" THEN [st |-> st, err |-> g.err]
                   ELSE [st |-> remap(st, g.km, h), err |-> "nil"]

----------------------------------------------------------------------------
(* The state after an operation *)

\* what the operation op returned: its error and, from a lookup, its object
Result(op, err, obj) == [op |-> op, err |-> err, obj |-> obj]

Slots(ix) == UNION {{ix[i][k] : k \in DOMAIN ix[i]} : i \in DOMAIN ix}

\* the objects something still refers to
LiveHandles(ix, futs, tk) == (Slots(ix) \cup {f.ent : f \in futs} \cup DOMAIN tk) \ {Nil}
LiveEntries(hp) == {hp[h].content : h \in DOMAIN hp} \ {Nil}
LiveChans(hp, futs) ==
    UNION {hp[h].reqs : h \in DOMAIN hp} \cup ({f.cookie : f \in futs} \ {0})

\* the new state: what the operation left, without the objects nothing refers to
Commit(st, cnt, futs, res) ==
    LET hp1 == Restrict(st.hp, LiveHandles(st.ix, futs, st.tk)) IN
    /\ indexes' = st.ix
    /\ heap' = hp1
    /\ ents' = Restrict(st.en, LiveEntries(hp1))
    /\ chans' = Restrict(st.ch, LiveChans(hp1, futs))
    /\ tasks' = st.tk
    /\ reqCounter' = cnt
    /\ futures' = futs
    /\ halt' = st.halt
    /\ last' = res

\* the bounds of the model, on the state an operation would leave
WithinBounds(st, cnt, futs) ==
    /\ Cardinality(DOMAIN st.tk) <= MaxTasks
    /\ cnt <= MaxCookie
    /\ Cardinality(futs) <= MaxFutures

Future(fut, key, pc) ==
    [ent |-> fut.ent, result |-> fut.result, cookie |-> fut.cookie,
     canceled |-> fut.canceled, key |-> key, pc |-> pc]

----------------------------------------------------------------------------
(* Operations *)

\* FCache.LookupFuture
LookupFuture(opts) ==
    /\ halt = "none"
    /\ LET p == procLookupOpts(opts) IN
       IF p.err = "panic"
       THEN Commit(Panic(Cache), reqCounter, futures,
                   Result("LookupFuture", "nil", "nil"))
       ELSE IF p.err # "nil"
       THEN Commit(Cache, reqCounter, futures,
                   Result("LookupFuture", p.err, "nil"))
       ELSE LET r == lookup(Cache, reqCounter, p.o)
                futs == IF r.fut = <<>> THEN futures
                        ELSE futures \cup {Future(r.fut[1], p.o.key[1], "held")}
            IN /\ WithinBounds(r.st, r.cnt, futs)
               /\ Commit(r.st, r.cnt, futs,
                         Result("LookupFuture", r.err, "nil"))

\* FCache.Lookup, up to the wait on the channel of its Future; a Future
\* without a channel is read and cancelled at once
Lookup(opts) ==
    /\ halt = "none"
    /\ LET p == procLookupOpts(opts) IN
       IF p.err = "panic"
       THEN Commit(Panic(Cache), reqCounter, futures,
                   Result("Lookup", "nil", "nil"))
       ELSE IF p.err # "nil"
       THEN Commit(Cache, reqCounter, futures,
                   Result("Lookup", p.err, "nil"))
       ELSE LET r == lookup(Cache, reqCounter, p.o) IN
            IF r.fut = <<>>
            THEN /\ WithinBounds(r.st, r.cnt, futures)
                 /\ Commit(r.st, r.cnt, futures,
                           Result("Lookup", r.err, "nil"))
            ELSE IF r.fut[1].result = Nil
            THEN LET c == ReadContent(r.st, r.fut[1].ent) IN
                 /\ WithinBounds(r.st, r.cnt, futures)
                 /\ Commit(r.st, r.cnt, futures,
                           Result("Lookup", c.err, c.obj))
            ELSE LET futs == futures \cup {Future(r.fut[1], p.o.key[1], "wait")}
                 IN /\ WithinBounds(r.st, r.cnt, futs)
                    /\ Commit(r.st, r.cnt, futs,
                              Result("LookupBlocked", "nil", "nil"))

\* a receive from the channel c: the value received and the channel afterwards
Ready(c) == c.buf # <<>> \/ c.closed
Received(c) == IF c.buf # <<>> THEN Head(c.buf) ELSE ZeroEntry
AfterReceive(c) == [c EXCEPT !.buf = IF c.buf # <<>> THEN Tail(c.buf) ELSE <<>>]

\* WaitWithContext that returns what it received even when that is empty
WaitResultReceived(st, f, v) == [obj |-> v.Object, err |-> v.Error]

\* what WaitWithContext returns once f.wait has received v
WaitResult(st, f, v) ==
    IF v.Object # "nil" \/ v.Error # "nil"
    THEN [obj |-> v.Object, err |-> v.Error]
    ELSE ReadContent(st, f.ent)

\* Future.Cancel that leaves the channel of the Future registered
CancelKeepsSlot(st, f) == st

\* Future.Cancel that drops every waiter of the entry
CancelAll(st, f) == [st EXCEPT !.hp[f.ent].reqs = {}]

\* Future.Cancel
Cancel(st, f) == [st EXCEPT !.hp[f.ent].reqs = st.hp[f.ent].reqs \ {f.cookie}]

\* the rest of FCache.Lookup: the receive in f.WaitWithContext(o.ctx), then
\* the deferred f.Cancel() and the return
LookupReturn(f) ==
    /\ halt = "none"
    /\ f \in futures
    /\ f.pc = "wait"
    /\ Ready(chans[f.result])
    /\ LET v == Received(chans[f.result])
           st1 == [Cache EXCEPT !.ch[f.result] = AfterReceive(chans[f.result])]
           c == WaitResult(st1, f, v)
       IN Commit(Cancel(st1, f), reqCounter, futures \ {f},
                 Result("Lookup", c.err, c.obj))

\* Future.WaitWithContext, when it returns a result
Wait(f) ==
    /\ halt = "none"
    /\ f \in futures
    /\ f.pc = "held"
    /\ IF f.canceled
       THEN Commit(Cache, reqCounter, futures,
                   Result("Wait", "ErrFutureCanceled", "nil"))
       ELSE IF f.result # Nil
       THEN /\ Ready(chans[f.result])
            /\ LET v == Received(chans[f.result])
                   st1 == [Cache EXCEPT !.ch[f.result] = AfterReceive(chans[f.result])]
                   c == WaitResult(st1, f, v)
               IN Commit(st1, reqCounter, futures,
                         Result("Wait", c.err, c.obj))
       ELSE LET c == ReadContent(Cache, f.ent) IN
            Commit(Cache, reqCounter, futures,
                   Result("Wait", c.err, c.obj))

\* a call of Future.Wait on f would return now, without blocking
WaitReady(f) == f.canceled \/ f.result = Nil \/ Ready(chans[f.result])

\* what a call of Future.Wait on f would return now
WaitOutcome(f) ==
    IF f.canceled THEN [obj |-> "nil", err |-> "ErrFutureCanceled"]
    ELSE IF f.result # Nil
    THEN WaitResult([Cache EXCEPT !.ch[f.result] = AfterReceive(chans[f.result])],
                    f, Received(chans[f.result]))
    ELSE ReadContent(Cache, f.ent)

\* a wait whose context is done that also gives up the waiter slot of f
WaitCanceledDropsSlot(f) ==
    /\ halt = "none"
    /\ f \in futures
    /\ f.pc = "held"
    /\ ~f.canceled
    /\ f.result # Nil
    /\ Commit(Cancel(Cache, f), reqCounter, futures,
              Result("WaitCanceled", ErrCanceled, "nil"))

\* Future.WaitWithContext, when its context is done first
WaitCanceled(f) ==
    /\ halt = "none"
    /\ f \in futures
    /\ f.pc = "held"
    /\ ~f.canceled
    /\ f.result # Nil
    /\ Commit(Cache, reqCounter, futures,
              Result("WaitCanceled", ErrCanceled, "nil"))

\* Future.Cancel, by the holder of the Future
\* Future.Cancel that also cancels the context of the factory behind the entry
FutureCancelStopsFactory(f) ==
    /\ halt = "none"
    /\ f \in futures
    /\ f.pc = "held"
    /\ LET st == IF Has(tasks, f.ent)
                 THEN [Cache EXCEPT !.tk[f.ent].cancelled = TRUE]
                 ELSE Cache
       IN Commit(Cancel(st, f), reqCounter,
                 (futures \ {f}) \cup {[f EXCEPT !.result = Nil, !.canceled = TRUE]},
                 Result("Cancel", "nil", "nil"))

FutureCancel(f) ==
    /\ halt = "none"
    /\ f \in futures
    /\ f.pc = "held"
    /\ IF f.canceled
       THEN Commit(Cache, reqCounter, futures,
                   Result("Cancel", "nil", "nil"))
       ELSE Commit(Cancel(Cache, f), reqCounter,
                   (futures \ {f}) \cup {[f EXCEPT !.result = Nil, !.canceled = TRUE]},
                   Result("Cancel", "nil", "nil"))

\* Future.Channel without the test of f.canceled
ChannelOfCanceled(f) ==
    /\ halt = "none"
    /\ f \in futures
    /\ f.pc = "held"
    /\ Commit(Cache, reqCounter, futures,
              Result("Channel", "nil",
                     IF f.result # Nil THEN "result"
                     ELSE IF heap[f.ent].content = Nil THEN "nil"
                     ELSE "synthesized"))

\* Future.Channel: obj tells which channel is returned, the nil channel, the
\* Future's own channel, or one made, filled with the content and closed
Channel(f) ==
    /\ halt = "none"
    /\ f \in futures
    /\ f.pc = "held"
    /\ Commit(Cache, reqCounter, futures,
              Result("Channel", "nil",
                     IF f.canceled THEN "nil"
                     ELSE IF f.result # Nil THEN "result"
                     ELSE IF heap[f.ent].content = Nil THEN "nil"
                     ELSE "synthesized"))

\* the holder of a Future lets go of it
Release(f) ==
    /\ halt = "none"
    /\ f \in futures
    /\ f.pc = "held"
    /\ Commit(Cache, reqCounter, futures \ {f},
              Result("Release", "nil", "nil"))

\* manufacture that discards the Entry of a factory whose context was cancelled
manufactureDropsCancelled(t, res) ==
    /\ halt = "none"
    /\ t \in DOMAIN tasks
    /\ LET st0 == [Cache EXCEPT !.tk = Delete(tasks, t)]
           r == IF tasks[t].cancelled THEN [st |-> st0]
                ELSE IF res = <<>> THEN insert(st0, Nil)
                ELSE insert(AllocEntry(st0, res[1]), NewEntryAddr(st0))
       IN Commit(r.st, reqCounter, futures,
                 Result("manufacture", "nil", "nil"))

\* FCache.manufacture, from the return of the factory: res is what it returned
manufacture(t, res) ==
    /\ halt = "none"
    /\ t \in DOMAIN tasks
    /\ LET st0 == [Cache EXCEPT !.tk = Delete(tasks, t)]
           r == IF res = <<>> THEN insert(st0, Nil)
                ELSE insert(AllocEntry(st0, res[1]), NewEntryAddr(st0))
       IN Commit(r.st, reqCounter, futures,
                 Result("manufacture", "nil", "nil"))

\* Clean that ignores its options and clears everything
CleanEverything(opts) ==
    /\ halt = "none"
    /\ Commit(cleanIndexes(Cache, DOMAIN indexes, procCleanOpts(<<>>)), reqCounter,
              futures, Result("Clean", "nil", "nil"))

\* FCache.Clean
Clean(opts) ==
    /\ halt = "none"
    /\ Commit(cleanIndexes(Cache, DOMAIN indexes, procCleanOpts(opts)), reqCounter,
              futures, Result("Clean", "nil", "nil"))

\* FCache.Evict
Evict(opts) ==
    /\ halt = "none"
    /\ LET p == procLookupOpts(opts)
           key == p.o.key[1]
           done(st, err) == Commit(st, reqCounter, futures,
                                   Result("Evict", err, "nil"))
       IN IF p.err = "panic" THEN done(Panic(Cache), "nil")
          ELSE IF p.err # "nil" THEN done(Cache, p.err)
          ELSE IF ~Has(indexes, key.Index) THEN done(Cache, "ErrBadIndex")
          ELSE IF ~Has(indexes[key.Index], key.Key) THEN done(Cache, "nil")
          ELSE IF indexes[key.Index][key.Key] = Nil THEN done(Panic(Cache), "nil")
          ELSE IF heap[indexes[key.Index][key.Key]].content = Nil THEN done(Cache, "nil")
          ELSE done(evict(Cache, ents[heap[indexes[key.Index][key.Key]].content].Keys),
                    "nil")

\* the cache that FCache.Evict with the key k would leave, called now
AfterEvict(k) ==
    IF ~Has(indexes, k.Index) THEN Cache
    ELSE IF ~Has(indexes[k.Index], k.Key) THEN Cache
    ELSE IF indexes[k.Index][k.Key] = Nil THEN Panic(Cache)
    ELSE IF heap[indexes[k.Index][k.Key]].content = Nil THEN Cache
    ELSE evict(Cache, ents[heap[indexes[k.Index][k.Key]].content].Keys)

\* the indexes that FCache.Evict with the key k would leave, called now
EvictWouldLeave(k) == AfterEvict(k).ix

\* the orders in which a range over a map with the keys S can visit them
Orders(S) ==
    {q \in [1..Cardinality(S) -> S] : \A m, n \in 1..Cardinality(S) : q[m] = q[n] => m = n}

\* what a call returns that returns a list
ListResult(op, err, list) == [op |-> op, err |-> err, obj |-> "nil", list |-> list]

\* the loop of Contents that also appends an Entry for an entry without content
RECURSIVE contentsWithPending(_, _, _, _)
contentsWithPending(st, i, order, result) ==
    IF order = <<>> \/ st.halt # "none" THEN [st |-> st, result |-> result]
    ELSE LET h == st.ix[i][Head(order)] IN
         IF h = Nil THEN [st |-> Panic(st), result |-> result]
         ELSE IF st.hp[h].content # Nil
         THEN contentsWithPending(st, i, Tail(order),
                                  Append(result, st.en[st.hp[h].content]))
         ELSE contentsWithPending(st, i, Tail(order), Append(result, ZeroEntry))

\* the loop of Contents over idx.entries, visited in the order given
RECURSIVE contents(_, _, _, _)
contents(st, i, order, result) ==
    IF order = <<>> \/ st.halt # "none" THEN [st |-> st, result |-> result]
    ELSE LET h == st.ix[i][Head(order)] IN
         IF h = Nil THEN [st |-> Panic(st), result |-> result]
         ELSE IF st.hp[h].content # Nil
         THEN contents(st, i, Tail(order), Append(result, st.en[st.hp[h].content]))
         ELSE contents(st, i, Tail(order), result)

\* FCache.Contents
Contents(i) ==
    /\ halt = "none"
    /\ IF ~Has(indexes, i)
       THEN Commit(Cache, reqCounter, futures, ListResult("Contents", "ErrBadIndex", <<>>))
       ELSE \E order \in Orders(DOMAIN indexes[i]) :
              LET r == contents(Cache, i, order, <<>>) IN
              Commit(r.st, reqCounter, futures, ListResult("Contents", "nil", r.result))

\* the loop of ContentsFuture over idx.entries, visited in the order given
RECURSIVE contentsFuture(_, _, _, _, _)
contentsFuture(st, cnt, i, order, result) ==
    IF order = <<>> \/ st.halt # "none" THEN [st |-> st, cnt |-> cnt, result |-> result]
    ELSE LET m == makeFuture(st, cnt, st.ix[i][Head(order)]) IN
         IF m.fut = <<>> THEN [st |-> m.st, cnt |-> m.cnt, result |-> result]
         ELSE contentsFuture(m.st, m.cnt, i, Tail(order),
                             Append(result, Future(m.fut[1], Key(i, Head(order)), "held")))

\* FCache.ContentsFuture
ContentsFuture(i) ==
    /\ halt = "none"
    /\ IF ~Has(indexes, i)
       THEN Commit(Cache, reqCounter, futures,
                   ListResult("ContentsFuture", "ErrBadIndex", <<>>))
       ELSE \E order \in Orders(DOMAIN indexes[i]) :
              LET r == contentsFuture(Cache, reqCounter, i, order, <<>>)
                  futs == futures \cup {r.result[n] : n \in 1..Len(r.result)}
              IN /\ WithinBounds(r.st, r.cnt, futs)
                 /\ Commit(r.st, r.cnt, futs,
                           ListResult("ContentsFuture", "nil", r.result))

\* FCache.Reindex
Reindex(newKeys, opts) ==
    /\ halt = "none"
    /\ LET p == procLookupOpts(opts)
           done(st, err) == Commit(st, reqCounter, futures,
                                   Result("Reindex", err, "nil"))
       IN IF p.err = "panic" THEN done(Panic(Cache), "nil")
          ELSE IF p.err # "nil" THEN done(Cache, p.err)
          ELSE LET r == reindex(Cache, newKeys, p.o) IN done(r.st, r.err)

\* the cache that each of these calls would leave, called now: FCache.lookup
\* with the options opts, FCache.Clean, FCache.Reindex, and FCache.Contents
\* visiting the slots in the order given
AfterLookup(opts) ==
    IF procLookupOpts(opts).err = "panic" THEN Panic(Cache)
    ELSE IF procLookupOpts(opts).err # "nil" THEN Cache
    ELSE lookup(Cache, reqCounter, procLookupOpts(opts).o).st

AfterClean(opts) == cleanIndexes(Cache, DOMAIN indexes, procCleanOpts(opts))

AfterReindex(newKeys, opts) ==
    IF procLookupOpts(opts).err = "panic" THEN Panic(Cache)
    ELSE IF procLookupOpts(opts).err # "nil" THEN Cache
    ELSE reindex(Cache, newKeys, procLookupOpts(opts).o).st

AfterContents(i, order) == contents(Cache, i, order, <<>>).st

----------------------------------------------------------------------------

Init ==
    /\ indexes = [i \in Declared |-> EmptyMap]
    /\ heap = EmptyMap
    /\ ents = EmptyMap
    /\ chans = EmptyMap
    /\ reqCounter = 0
    /\ tasks = EmptyMap
    /\ futures = {}
    /\ halt = "none"
    /\ last = Result("New", "nil", "nil")

----------------------------------------------------------------------------
(* Inputs *)

A1 == Key("A", 1)
A2 == Key("A", 2)
B1 == Key("B", 1)
B2 == Key("B", 2)
U1 == Key("U", 1)

Object(obj, keys) == Entry(obj, "nil", keys)
Failure(err, keys) == Entry("nil", err, keys)

----------------------------------------------------------------------------
(* Lookups of one key, its factory, waiters and cancellations, with a      *)
(* second key of the same index from which an entry is reindexed onto it   *)

FlightOpts == {<<ByKey(A1)>>}
FlightResults == {<<Object("o1", <<A1>>)>>, <<Failure(ErrAn, <<A1>>)>>,
                  <<Object("o2", <<A2>>)>>}

Next ==
    \/ \E opts \in FlightOpts : LookupFuture(opts)
    \/ \E opts \in FlightOpts : Lookup(opts)
    \/ \E f \in futures : LookupReturn(f)
    \/ \E f \in futures : Wait(f)
    \/ \E f \in futures : FutureCancel(f)
    \/ \E f \in futures : Release(f)
    \/ \E t \in DOMAIN tasks, res \in FlightResults : manufacture(t, res)
    \/ Clean(<<Pending>>)
    \/ Evict(<<ByKey(A1)>>)
    \/ Reindex(<<A1>>, <<ByKey(A2)>>)

Spec == Init /\ [][Next]_vars

----------------------------------------------------------------------------
(* Inserts of entries with a key in each index: by the return of a factory *)
(* and by a supplied Entry, onto slots that are absent, pending or complete *)

InsertKeys == {A1, B1}
InsertOpts == {<<ByKey(k)>> : k \in InsertKeys}
Supplied == {Object("o2", <<B1>>), Object("o1", <<A1, B1>>)}
InsertResults == {<<Object("o1", <<A1, B1>>)>>, <<Failure(ErrAn, <<A1, B1>>)>>,
                  <<Failure(ErrPermanent, <<A1, B1>>)>>}

NextInsert ==
    \/ \E opts \in InsertOpts : Lookup(opts)
    \/ \E e \in Supplied : Lookup(<<ByEntry(e)>>)
    \/ \E f \in futures : LookupReturn(f)
    \/ \E t \in DOMAIN tasks, res \in InsertResults : manufacture(t, res)
    \/ Clean(<<Errors>>)
    \/ Evict(<<ByKey(B1)>>)

SpecInsert == Init /\ [][NextInsert]_vars

----------------------------------------------------------------------------
(* Reindex of a cached entry with a key in each index onto keys that are    *)
(* free, pending or taken by other entries, and the calls Reindex refuses   *)

ReindexSupplied == {Object("o1", <<A1, B1>>), Object("o2", <<A2>>)}
ReindexResults == {<<Object("o3", <<B2, A2>>)>>}
\* the calls of Reindex: the new keys and the options of each
MoveCalls == {<<<<A2, B2>>, <<ByKey(A1)>>>>, <<<<A2, B2>>, <<ByKey(B2)>>>>,
              <<<<A2, B2>>, <<ByKey(U1)>>>>}

NextReindex ==
    \/ \E e \in ReindexSupplied : Lookup(<<ByEntry(e)>>)
    \/ Lookup(<<ByKey(B2)>>)
    \/ \E f \in futures : LookupReturn(f)
    \/ \E t \in DOMAIN tasks, res \in ReindexResults : manufacture(t, res)
    \/ \E call \in MoveCalls : Reindex(call[1], call[2])

SpecReindex == Init /\ [][NextReindex]_vars

----------------------------------------------------------------------------
(* Reindex with new keys whose indexes are not those of the entry: an index *)
(* added, an index left out, an index named twice                          *)

KeyMapSupplied == {Object("o1", <<A1, B1>>), Object("o2", <<A2>>),
                   Object("o3", <<B2, A2>>)}
KeyMapCalls == {<<<<A2, B2>>, <<ByKey(A1)>>>>, <<<<A2>>, <<ByKey(A1)>>>>,
                <<<<A2, B2, A1>>, <<ByKey(A1)>>>>, <<<<A1, B2>>, <<ByKey(A2)>>>>,
                <<<<B1, U1>>, <<ByKey(B2)>>>>}

NextKeyMap ==
    \/ \E e \in KeyMapSupplied : Lookup(<<ByEntry(e)>>)
    \/ \E call \in KeyMapCalls : Reindex(call[1], call[2])
    \/ Evict(<<ByKey(A2)>>)

SpecKeyMap == Init /\ [][NextKeyMap]_vars

----------------------------------------------------------------------------
(* Clean with each of its options over a pending entry, the results of its *)
(* factory and a cached Entry with neither an Object nor an Error, with    *)
(* lookups that only search the cache                                      *)

CleanSupplied == {Entry("nil", "nil", <<A2>>)}
CleanResults == {<<Object("o2", <<A1>>)>>, <<Failure(ErrPermanent, <<A1>>)>>}
CleanOpts == {<<>>, <<Objects>>, <<Errors>>, <<Pending>>}

NextClean ==
    \/ Lookup(<<ByKey(A1)>>)
    \/ Lookup(<<ByKey(A1), SearchCache>>)
    \/ \E e \in CleanSupplied : Lookup(<<ByEntry(e)>>)
    \/ \E f \in futures : LookupReturn(f)
    \/ \E t \in DOMAIN tasks, res \in CleanResults : manufacture(t, res)
    \/ \E opts \in CleanOpts : Clean(opts)

SpecClean == Init /\ [][NextClean]_vars

----------------------------------------------------------------------------
(* Clean(Objects) and Clean(Errors) over cached objects, cached errors, an *)
(* Entry with both, and a pending entry                                    *)

KindSupplied == {Object("o1", <<B1>>), Failure(ErrPermanent, <<B2>>)}
KindResults == {<<Object("o2", <<A1>>)>>, <<Entry("o3", ErrPermanent, <<A1>>)>>}
KindOpts == {<<Objects>>, <<Errors>>}

NextKinds ==
    \/ Lookup(<<ByKey(A1)>>)
    \/ \E e \in KindSupplied : Lookup(<<ByEntry(e)>>)
    \/ \E f \in futures : LookupReturn(f)
    \/ \E t \in DOMAIN tasks, res \in KindResults : manufacture(t, res)
    \/ \E opts \in KindOpts : Clean(opts)

SpecKinds == Init /\ [][NextKinds]_vars

----------------------------------------------------------------------------
(* Futures held by their callers: waits that return a result, waits whose  *)
(* context is done first, Cancel and Channel, while the factory runs and   *)
(* after it has returned; and a Lookup that is given a context             *)

WaitOpts == {<<ByKey(A1)>>}
WaitResults == {<<Object("o1", <<A1>>)>>, <<Failure(ErrAn, <<A1>>)>>,
                <<Entry("nil", "nil", <<A1>>)>>}

NextWait ==
    \/ \E opts \in WaitOpts : LookupFuture(opts)
    \/ Lookup(<<ByKey(A1), WithContext>>)
    \/ \E f \in futures : Wait(f)
    \/ \E f \in futures : WaitCanceled(f)
    \/ \E f \in futures : FutureCancel(f)
    \/ \E f \in futures : Channel(f)
    \/ \E f \in futures : Release(f)
    \/ \E t \in DOMAIN tasks, res \in WaitResults : manufacture(t, res)

SpecWait == Init /\ [][NextWait]_vars

----------------------------------------------------------------------------
(* Lookups with SearchCache and with a supplied Entry, by key and by Entry, *)
(* over absent, pending and complete entries; the supplied Entries carry   *)
(* an object, a permanent error or an error that is not permanent          *)

SearchSupplied == {Object("o1", <<A1>>), Failure(ErrPermanent, <<A1>>),
                   Failure(ErrAn, <<A1>>)}
SearchOnly == {<<ByKey(A1), SearchCache>>} \cup
              {<<ByEntry(e), SearchCache>> : e \in SearchSupplied}
SearchOpts == {<<ByKey(A1)>>} \cup {<<ByEntry(e)>> : e \in SearchSupplied} \cup SearchOnly
SearchResults == {<<Object("o3", <<A1>>)>>}

NextSearch ==
    \/ \E opts \in SearchOpts : Lookup(opts)
    \/ \E opts \in SearchOpts : LookupFuture(opts)
    \/ \E f \in futures : LookupReturn(f)
    \/ \E f \in futures : Release(f)
    \/ \E t \in DOMAIN tasks, res \in SearchResults : manufacture(t, res)
    \/ Evict(<<ByKey(A1)>>)

SpecSearch == Init /\ [][NextSearch]_vars

----------------------------------------------------------------------------
(* A factory that returns nil, or an object, to Lookups and Futures that   *)
(* wait for it                                                             *)

NilOpts == {<<ByKey(A1)>>}
NilResult == <<>>
NilResults == {NilResult, <<Object("o1", <<A1>>)>>}

NextNil ==
    \/ \E opts \in NilOpts : Lookup(opts)
    \/ \E opts \in NilOpts : LookupFuture(opts)
    \/ \E f \in futures : LookupReturn(f)
    \/ \E f \in futures : Wait(f)
    \/ \E f \in futures : WaitCanceled(f)
    \/ \E f \in futures : Release(f)
    \/ \E t \in DOMAIN tasks, res \in NilResults : manufacture(t, res)
    \/ Evict(<<ByKey(A1)>>)

SpecNil == Init /\ [][NextNil]_vars

----------------------------------------------------------------------------
(* Evict by each key over absent, pending and complete slots: an object    *)
(* whose Keys name an undeclared index and a key that another entry, or a  *)
(* pending one, can hold                                                   *)

EvictSupplied == {Object("o1", <<A1, U1, B1>>), Object("o3", <<B1>>)}
EvictResults == {<<Object("o4", <<B1>>)>>}
EvictKeys == {A1, B1, U1}

NextEvict ==
    \/ \E e \in EvictSupplied : Lookup(<<ByEntry(e)>>)
    \/ Lookup(<<ByKey(B1)>>)
    \/ LookupFuture(<<ByKey(A1), SearchCache>>)
    \/ \E f \in futures : LookupReturn(f)
    \/ \E t \in DOMAIN tasks, res \in EvictResults : manufacture(t, res)
    \/ \E k \in EvictKeys : Evict(<<ByKey(k)>>)

SpecEvict == Init /\ [][NextEvict]_vars

----------------------------------------------------------------------------
(* Contents and ContentsFuture of each index, declared or not, over        *)
(* pending and complete entries and an object cached under two keys of one *)
(* index                                                                   *)

ContentsSupplied == {Object("o2", <<A2>>), Failure(ErrPermanent, <<A2, A1>>)}
ContentsResults == {<<Object("o1", <<A1>>)>>}

NextContents ==
    \/ LookupFuture(<<ByKey(A1)>>)
    \/ \E e \in ContentsSupplied : Lookup(<<ByEntry(e)>>)
    \/ \E f \in futures : Release(f)
    \/ \E t \in DOMAIN tasks, res \in ContentsResults : manufacture(t, res)
    \/ \E i \in IndexIds : Contents(i)
    \/ \E i \in IndexIds : ContentsFuture(i)

SpecContents == Init /\ [][NextContents]_vars

----------------------------------------------------------------------------
(* Operations on other keys while the factory of A1 runs and Lookups wait  *)
(* for it                                                                  *)

StallSupplied == {Object("o2", <<B1>>)}
StallResults == {<<Object("o1", <<A1>>)>>}
StallLookups == {<<ByKey(B1), SearchCache>>} \cup {<<ByEntry(e)>> : e \in StallSupplied}
StallCleans == {<<Objects>>, <<Errors>>}

NextStall ==
    \/ Lookup(<<ByKey(A1)>>)
    \/ \E opts \in StallLookups : Lookup(opts)
    \/ \E f \in futures : LookupReturn(f)
    \/ \E t \in DOMAIN tasks, res \in StallResults : manufacture(t, res)
    \/ Evict(<<ByKey(B1)>>)
    \/ \E opts \in StallCleans : Clean(opts)
    \/ Reindex(<<B2>>, <<ByKey(B1)>>)
    \/ Contents("B")

SpecStall == Init /\ [][NextStall]_vars

----------------------------------------------------------------------------
(* Claims *)

\* the slot of key k holds the entry at address h
SlotIs(k, h) ==
    /\ Has(indexes, k.Index)
    /\ Has(indexes[k.Index], k.Key)
    /\ indexes[k.Index][k.Key] = h

\* the entry at address h is pending: it has no content yet
IsPending(h) == h # Nil /\ Has(heap, h) /\ heap[h].content = Nil
IsComplete(h) == h # Nil /\ Has(heap, h) /\ heap[h].content # Nil

\* C1 as stated: in every reachable state at most one factory goroutine that
\* has not returned exists for any one key.
C1_OneTaskPerKey ==
    \A t1, t2 \in DOMAIN tasks : tasks[t1].key = tasks[t2].key => t1 = t2

\* C1, amended: in every reachable state, every factory goroutine that has not
\* returned and whose context is not cancelled belongs to the pending entry
\* that sits in the slot of its key; so at most one such goroutine exists for
\* any one key.
C1_SingleFlight ==
    /\ \A t \in DOMAIN tasks :
          ~tasks[t].cancelled => SlotIs(tasks[t].key, t) /\ IsPending(t)
    /\ \A t1, t2 \in DOMAIN tasks :
          /\ tasks[t1].key = tasks[t2].key
          /\ ~tasks[t1].cancelled
          /\ ~tasks[t2].cancelled
          => t1 = t2

\* two factory goroutines of one key, the older one cancelled
C1_Witness ==
    \E t1, t2 \in DOMAIN tasks :
        /\ t1 # t2
        /\ tasks[t1].key = tasks[t2].key
        /\ tasks[t1].cancelled
        /\ ~tasks[t2].cancelled

\* a call of Lookup or LookupFuture with the options opts
LookupCall(opts) == Lookup(opts) \/ LookupFuture(opts)

\* C2 as stated: a Lookup or LookupFuture of a key, made while another Lookup
\* of that key has not returned yet, never spawns a factory.
C2_OthersNeverSpawn ==
    [][\A opts \in FlightOpts :
          /\ LookupCall(opts)
          /\ \E f \in futures : f.pc = "wait" /\ f.key = procLookupOpts(opts).o.key[1]
          => DOMAIN tasks' \subseteq DOMAIN tasks]_vars

\* C2, amended: a Lookup or LookupFuture by key that finds the slot of the key
\* absent installs a new pending entry in the slot, spawns exactly one factory
\* goroutine for it and registers itself as its only waiter, all in one step;
\* one that finds a pending entry in the slot spawns nothing, leaves the
\* indexes alone and adds exactly one waiter to that entry.
C2_SpawnOrWait ==
    [][\A opts \in FlightOpts :
          LookupCall(opts) =>
            LET k == procLookupOpts(opts).o.key[1] IN
            /\ ~Has(indexes[k.Index], k.Key) =>
                 \E h \in DOMAIN heap' :
                     /\ h \notin DOMAIN tasks
                     /\ DOMAIN tasks' = DOMAIN tasks \cup {h}
                     /\ tasks'[h] = [key |-> k, cancelled |-> FALSE]
                     /\ \A t \in DOMAIN tasks : tasks'[t] = tasks[t]
                     /\ indexes' = [indexes EXCEPT ![k.Index] = Put(@, k.Key, h)]
                     /\ heap'[h].content = Nil
                     /\ Cardinality(heap'[h].reqs) = 1
            /\ (Has(indexes[k.Index], k.Key) /\ IsPending(indexes[k.Index][k.Key])) =>
                 LET h == indexes[k.Index][k.Key] IN
                 /\ tasks' = tasks
                 /\ indexes' = indexes
                 /\ heap'[h].content = Nil
                 /\ heap[h].reqs \subseteq heap'[h].reqs
                 /\ Cardinality(heap'[h].reqs) = Cardinality(heap[h].reqs) + 1]_vars

\* two callers wait on the one pending entry of key A1, whose factory is the
\* only one running
C2_Witness ==
    \E h \in DOMAIN heap :
        /\ SlotIs(A1, h)
        /\ IsPending(h)
        /\ DOMAIN tasks = {h}
        /\ Cardinality(heap[h].reqs) = 2
        /\ Cardinality({f \in futures : f.ent = h /\ f.cookie \in heap[h].reqs}) = 2

\* this step completes the pending entry at address h
Completes(h) ==
    /\ Has(heap, h)
    /\ heap[h].content = Nil
    /\ Has(heap', h)
    /\ heap'[h].content # Nil

\* C3: in every step that completes a pending entry, each channel registered
\* in its reqs was empty and open and now holds exactly one copy of the Entry
\* and is closed, and reqs is cleared; a channel registered in no entry (its
\* Future was cancelled, or its entry is complete) is never sent to nor closed,
\* and a cancelled Future's channel is registered nowhere; a Future made on a
\* complete entry has no channel and no cookie, no channel is made for it, and
\* its Wait returns the entry's content.
C3_FanOut ==
    [][/\ \A h \in DOMAIN heap :
             Completes(h) =>
               /\ heap'[h].reqs = {}
               /\ \A c \in heap[h].reqs \cap DOMAIN chans' :
                      /\ chans[c] = [buf |-> <<>>, closed |-> FALSE]
                      /\ chans'[c] = [buf |-> <<ents'[heap'[h].content]>>,
                                      closed |-> TRUE]
       /\ \A c \in DOMAIN chans \cap DOMAIN chans' :
             (\A h \in DOMAIN heap : c \notin heap[h].reqs) =>
               /\ chans'[c].closed = chans[c].closed
               /\ Len(chans'[c].buf) <= Len(chans[c].buf)
       /\ \A f \in futures' :
             f.canceled => \A h \in DOMAIN heap' : f.cookie \notin heap'[h].reqs
       /\ \A f \in futures' \ futures :
             (~f.canceled /\ heap'[f.ent].content # Nil) =>
               /\ f.cookie = 0
               /\ f.result = Nil
               /\ DOMAIN chans' \subseteq DOMAIN chans
       /\ \A f \in futures :
             (Wait(f) /\ ~f.canceled /\ f.result = Nil) =>
               /\ last'.obj = ents[heap[f.ent].content].Object
               /\ last'.err = ents[heap[f.ent].content].Error
               /\ chans' = chans]_vars

\* a complete entry with a waiter that got its copy and a Future cancelled
\* before the completion, whose channel is still empty and open
C3_Witness ==
    \E f1, f2 \in futures :
        /\ f1.ent = f2.ent
        /\ IsComplete(f1.ent)
        /\ ~f1.canceled
        /\ f1.cookie # 0
        /\ chans[f1.cookie] = [buf |-> <<ents[heap[f1.ent].content]>>, closed |-> TRUE]
        /\ f2.canceled
        /\ f2.cookie # 0
        /\ chans[f2.cookie] = [buf |-> <<>>, closed |-> FALSE]

\* C4 as stated: whenever a pending entry with waiters is completed, the step
\* is the return of the factory spawned for that entry and the content
\* delivered is the Entry the factory returned.
C4_OnlyFactoryDelivers ==
    [][\A h \in DOMAIN heap :
          (Completes(h) /\ heap[h].reqs # {}) =>
            \E res \in FlightResults :
                manufacture(h, res) /\ ents'[heap'[h].content] = res[1]]_vars

\* C4, amended: when the factory spawned for a key returns an Entry while its
\* entry is still pending in a slot that the Entry's Keys name, every waiter
\* registered on that entry receives an Entry equal to the one returned.
C4_WaitersGetReturn ==
    [][\A t \in DOMAIN tasks, res \in FlightResults :
          /\ manufacture(t, res)
          /\ IsPending(t)
          /\ \E n \in 1..Len(res[1].Keys) : SlotIs(res[1].Keys[n], t)
          => \A f \in futures :
                 (f.ent = t /\ f.cookie \in heap[t].reqs) =>
                   /\ f \in futures'
                   /\ Has(chans', f.cookie)
                   /\ chans'[f.cookie] = [buf |-> <<res[1]>>, closed |-> TRUE]]_vars

\* a blocked Lookup of A1 whose channel holds the Entry its factory returned
C4_Witness ==
    \E f \in futures :
        /\ f.pc = "wait"
        /\ f.key = A1
        /\ SlotIs(A1, f.ent)
        /\ IsComplete(f.ent)
        /\ ents[heap[f.ent].content] = Object("o1", <<A1>>)
        /\ chans[f.cookie] = [buf |-> <<Object("o1", <<A1>>)>>, closed |-> TRUE]

\* the slot of key k is absent, or holds a pending entry
AbsentOrPending(k) ==
    /\ Has(indexes, k.Index)
    /\ Has(indexes[k.Index], k.Key) => IsPending(indexes[k.Index][k.Key])

\* the slot of key k holds a complete entry whose content is at address c
CachedAt(k, c) ==
    /\ Has(indexes, k.Index)
    /\ Has(indexes[k.Index], k.Key)
    /\ IsComplete(indexes[k.Index][k.Key])
    /\ heap[indexes[k.Index][k.Key]].content = c

\* the slot of key k holds a complete entry whose content equals e
Cached(k, e) == \E c \in DOMAIN ents : CachedAt(k, c) /\ ents[c] = e

\* the Entries that can sit in the cache under SpecInsert
InsertEntries == Supplied \cup {res[1] : res \in InsertResults}

\* this step is not one of the operations that remove cached entries
NotARemoval == last'.op \notin {"Clean", "Evict", "Reindex"}

\* this step is a Lookup by key k that finds the Entry e cached: it returns
\* e's Object and Error and spawns no factory
ServedFromCache(k, e) ==
    (Lookup(<<ByKey(k)>>) /\ Cached(k, e)) =>
        /\ last' = Result("Lookup", e.Error, e.Object)
        /\ tasks' = tasks

\* C5 as stated: after the return of a factory with an Entry whose Error is
\* not nil and not permanent, no declared index named in the Entry's Keys has
\* a slot for the key, whether the slot was pending or absent before.
C5_TransientLeavesNoSlot ==
    [][\A t \in DOMAIN tasks, res \in InsertResults :
          (manufacture(t, res) /\ res[1].Error = ErrAn) =>
            \A n \in 1..Len(res[1].Keys) :
                LET k == res[1].Keys[n] IN
                Has(indexes', k.Index) => ~Has(indexes'[k.Index], k.Key)]_vars

\* C6 as stated: after the return of a factory with an Entry whose Error is
\* permanent, the key the factory was spawned for is cached with that Entry.
C6_PermanentAlwaysCached ==
    [][\A t \in DOMAIN tasks, res \in InsertResults :
          (manufacture(t, res) /\ res[1].Error = ErrPermanent) =>
            \A k \in {tasks[t].key} : Cached(k, res[1])']_vars

\* C6, amended: the return of a factory with an Entry whose Error is
\* permanent, made while the slot of every key of the Entry is absent or
\* pending, leaves each of those keys cached with that Entry; a key cached with a permanent error stays cached with it over
\* every step that is not a Clean, Evict or Reindex; and a Lookup of such a
\* key returns that error and spawns no factory.
C6_PermanentCached ==
    [][/\ \A t \in DOMAIN tasks, res \in InsertResults :
             (manufacture(t, res) /\ res[1].Error = ErrPermanent) =>
               ((\A n \in 1..Len(res[1].Keys) : AbsentOrPending(res[1].Keys[n]))
                  => \A n \in 1..Len(res[1].Keys) : Cached(res[1].Keys[n], res[1])')
       /\ \A k \in InsertKeys, e \in InsertEntries :
             e.Error = ErrPermanent =>
               /\ (Cached(k, e) /\ NotARemoval) => Cached(k, e)'
               /\ ServedFromCache(k, e)]_vars

\* both keys are cached with the permanent error, and the Lookup that just
\* returned got that error with no factory running
C6_Witness ==
    /\ Cached(A1, Failure(ErrPermanent, <<A1, B1>>))
    /\ Cached(B1, Failure(ErrPermanent, <<A1, B1>>))
    /\ last = Result("Lookup", ErrPermanent, "nil")
    /\ tasks = EmptyMap

\* this step inserts the Entry e: it is the return of a factory with e, or a
\* Lookup with e supplied that finds the slot of e's first key absent
InsertsEntry(e) ==
    \/ \E t \in DOMAIN tasks : manufacture(t, <<e>>)
    \/ /\ Lookup(<<ByEntry(e)>>)
       /\ ~Has(indexes[e.Keys[1].Index], e.Keys[1].Key)

\* the Entries with keys A1 and B1 and no error that SpecInsert inserts
TwoKeyObjects == {e \in InsertEntries : e.Error = "nil" /\ Len(e.Keys) = 2}

\* C7 as stated: after any insert of an Entry with keys A1 and B1 and no error,
\* both keys are cached with one and the same Object.
C7_SameObjectAlways ==
    [][\A e \in TwoKeyObjects :
          InsertsEntry(e) =>
            \E c1, c2 \in DOMAIN ents' :
                /\ CachedAt(e.Keys[1], c1)'
                /\ CachedAt(e.Keys[2], c2)'
                /\ ents'[c1].Object = ents'[c2].Object]_vars

\* C7, amended: an insert of an Entry with two keys and no error, made while
\* the slots of both keys are absent or pending, leaves both keys cached with
\* that one Entry; a key cached with an Entry without error stays cached with
\* it over every step that is not a Clean, Evict or Reindex; and a Lookup of
\* a key so cached returns that Entry's Object and spawns no factory.
C7_SameObject ==
    [][/\ \A e \in TwoKeyObjects :
             (InsertsEntry(e) /\ AbsentOrPending(e.Keys[1]) /\ AbsentOrPending(e.Keys[2]))
               => \E c \in DOMAIN ents' :
                      /\ ents'[c] = e
                      /\ CachedAt(e.Keys[1], c)'
                      /\ CachedAt(e.Keys[2], c)'
       /\ \A k \in InsertKeys, e \in InsertEntries :
             e.Error = "nil" =>
               /\ (Cached(k, e) /\ NotARemoval) => Cached(k, e)'
               /\ ServedFromCache(k, e)]_vars

\* both keys are cached with the one Entry of o1, and the Lookup that just
\* returned got o1 with no factory running
C7_Witness ==
    /\ \E c \in DOMAIN ents : CachedAt(A1, c) /\ CachedAt(B1, c)
    /\ Cached(A1, Object("o1", <<A1, B1>>))
    /\ last = Result("Lookup", "nil", "o1")
    /\ tasks = EmptyMap
    /\ futures = {}

\* nothing of the cache, its entries, waiters and tasks changes in this step
CacheUnchanged ==
    UNCHANGED <<indexes, heap, ents, chans, reqCounter, tasks, futures, halt>>

\* every declared key in the Keys of the complete entry at h maps to an entry
\* whose content equals that of h
KeysIntact(h) ==
    \A n \in 1..Len(ents[heap[h].content].Keys) :
        LET k == ents[heap[h].content].Keys[n] IN
        Has(indexes, k.Index) =>
            /\ Has(indexes[k.Index], k.Key)
            /\ IsComplete(indexes[k.Index][k.Key])
            /\ ents[heap[indexes[k.Index][k.Key]].content] = ents[heap[h].content]

\* the declared indexes that the keys name
IndexSet(keys) == {keys[n].Index : n \in 1..Len(keys)} \cap DOMAIN indexes
\* the keys name some index twice
NamesTwice(keys) ==
    \E m, n \in 1..Len(keys) : m # n /\ keys[m].Index = keys[n].Index

\* C8 as stated: a Reindex by A1 of the entry cached with Keys <<A1, B1>> onto
\* <<A2, B2>> either returns no error, and then the slots of A1 and B1 are
\* absent and A2 and B2 are both cached with the content of that entry, or
\* returns an error and changes nothing.
C8_AllOrNothing ==
    [][\A c \in DOMAIN ents :
          /\ Reindex(<<A2, B2>>, <<ByKey(A1)>>)
          /\ CachedAt(A1, c)
          /\ ents[c].Keys = <<A1, B1>>
          => IF last'.err = "nil"
             THEN /\ ~Has(indexes'["A"], 1)
                  /\ ~Has(indexes'["B"], 1)
                  /\ CachedAt(A2, c)'
                  /\ CachedAt(B2, c)'
             ELSE CacheUnchanged]_vars

\* C9 as stated: a Reindex that finds its entry complete with its Keys intact
\* returns ErrIncongruentKeys and changes nothing whenever the declared
\* indexes of the new keys are not those of the entry's Keys, or the new keys
\* name an index twice.
C9_IncongruentDetected ==
    [][\A call \in KeyMapCalls :
          LET k == call[2][1].key[1] IN
          /\ Reindex(call[1], call[2])
          /\ Has(indexes, k.Index)
          /\ Has(indexes[k.Index], k.Key)
          /\ IsComplete(indexes[k.Index][k.Key])
          /\ KeysIntact(indexes[k.Index][k.Key])
          /\ \/ {call[1][n].Index : n \in 1..Len(call[1])}
                  # IndexSet(ents[heap[indexes[k.Index][k.Key]].content].Keys)
             \/ NamesTwice(call[1])
          => /\ last'.err = "ErrIncongruentKeys"
             /\ CacheUnchanged]_vars

Occupied(k) ==
    /\ Has(indexes, k.Index)
    /\ Has(indexes[k.Index], k.Key)
    /\ indexes[k.Index][k.Key] # Nil

\* C11 as stated: after a Reindex by A1 of the entry cached with Keys
\* <<A1, B1>> onto <<A2, B2>> that returns no error, the entry's Keys are
\* <<A2, B2>> and every new slot that was occupied is cached with the entry's
\* content; a pending squatter there is complete with that content, its
\* waiters hold a copy of it and its factory's context is cancelled; a
\* complete squatter's content is cached under none of the squatter's Keys.
C11_SquatterReplaced ==
    [][\A c \in DOMAIN ents :
          /\ Reindex(<<A2, B2>>, <<ByKey(A1)>>)
          /\ CachedAt(A1, c)
          /\ ents[c].Keys = <<A1, B1>>
          /\ last'.err = "nil"
          => /\ Has(ents', c)
             /\ ents'[c].Keys = <<A2, B2>>
             /\ \A k \in {A2, B2} :
                   Occupied(k) =>
                     LET e == indexes[k.Index][k.Key] IN
                     /\ CachedAt(k, c)'
                     /\ IsPending(e) =>
                          /\ Has(heap', e) => heap'[e].content = c
                          /\ Has(tasks, e) => tasks'[e].cancelled
                          /\ \A f \in futures :
                                (f.ent = e /\ f.cookie \in heap[e].reqs) =>
                                  chans'[f.cookie] = [buf |-> <<ents'[c]>>,
                                                      closed |-> TRUE]
                     /\ IsComplete(e) =>
                          \A n \in 1..Len(ents[heap[e].content].Keys) :
                              \A sc \in {heap[e].content}, k2 \in {ents[heap[e].content].Keys[n]} :
                                  ~CachedAt(k2, sc)']_vars

\* the Entry that Clean completes a pending entry with
CanceledEntry == Entry("nil", ErrCanceled, <<>>)

\* C12: a Clean with only Pending, for every slot that holds a pending entry:
\* removes the slot, cancels the context of the entry's factory if it is
\* still running, and leaves in the channel of every waiter registered on the
\* entry one Entry whose Error is context.Canceled, the channel closed; and
\* every slot that holds a complete entry keeps that entry and its content.
C12_CleanPending ==
    [][Clean(<<Pending>>) =>
         \A i \in DOMAIN indexes :
             \A kv \in DOMAIN indexes[i] :
                 LET h == indexes[i][kv] IN
                 /\ IsPending(h) =>
                      /\ ~Has(indexes'[i], kv)
                      /\ Has(tasks, h) => (Has(tasks', h) /\ tasks'[h].cancelled)
                      /\ \A f \in futures :
                            (f.ent = h /\ f.cookie \in heap[h].reqs) =>
                              /\ f \in futures'
                              /\ chans'[f.cookie] = [buf |-> <<CanceledEntry>>,
                                                     closed |-> TRUE]
                 /\ IsComplete(h) =>
                      /\ Has(indexes'[i], kv)
                      /\ indexes'[i][kv] = h
                      /\ heap'[h] = heap[h]
                      /\ ents'[heap'[h].content] = ents[heap[h].content]]_vars

\* a Clean with Pending has just run: the slot of A1 is gone, the factory of
\* its entry is still running with its context cancelled, a waiter holds the
\* Canceled Entry, and the complete entry under A2 is still cached
C12_Witness ==
    /\ last.op = "Clean"
    /\ ~Has(indexes["A"], 1)
    /\ \E c \in DOMAIN ents : CachedAt(A2, c)
    /\ \E f \in futures :
          /\ Has(tasks, f.ent)
          /\ tasks[f.ent].cancelled
          /\ f.cookie # 0
          /\ chans[f.cookie] = [buf |-> <<CanceledEntry>>, closed |-> TRUE]

\* C13 as stated (its last clause): the Entry returned by a factory whose
\* context Clean has cancelled is installed in no index, that is, the return
\* of a cancelled factory leaves every index as it was.
C13_CancelledResultDropped ==
    [][\A t \in DOMAIN tasks : \A res \in CleanResults :
         (manufacture(t, res) /\ tasks[t].cancelled) => indexes' = indexes]_vars

\* C13, amended: Clean(Pending) removes the slot of a pending A1; while the slot
\* is absent a SearchCache Lookup of A1 returns ErrNotCached and changes
\* nothing; the slot reappears only by a Lookup without SearchCache, a Lookup
\* with a supplied Entry, or the return of a factory; and the Entry returned by
\* a cancelled factory while the slot is absent is installed under A1 (every
\* Entry of CleanResults names A1 and has no error or a permanent one).
C13_SearchAfterClean ==
    [][/\ (Clean(<<Pending>>) /\ Has(indexes["A"], 1) /\ IsPending(indexes["A"][1]))
            => ~Has(indexes'["A"], 1)
       /\ (Lookup(<<ByKey(A1), SearchCache>>) /\ ~Has(indexes["A"], 1))
            => (last' = Result("Lookup", "ErrNotCached", "nil") /\ CacheUnchanged)
       /\ (~Has(indexes["A"], 1) /\ Has(indexes'["A"], 1))
            => \/ Lookup(<<ByKey(A1)>>)
               \/ \E e \in CleanSupplied : Lookup(<<ByEntry(e)>>)
               \/ \E t \in DOMAIN tasks : \E res \in CleanResults : manufacture(t, res)
       /\ \A t \in DOMAIN tasks : \A res \in CleanResults :
            (manufacture(t, res) /\ tasks[t].cancelled /\ ~Has(indexes["A"], 1))
              => Cached(A1, res[1])']_vars

\* only one Lookup ever registered a waiter, so only one factory was ever
\* started; Clean completed its entry with the cancellation Entry while a Lookup
\* was waiting on it; the factory has returned and its object is cached under A1
C13_Witness ==
    /\ reqCounter = 1
    /\ DOMAIN tasks = {}
    /\ last.op = "manufacture"
    /\ Cached(A1, Object("o2", <<A1>>))
    /\ \E f \in futures : /\ IsComplete(f.ent)
                          /\ ents[heap[f.ent].content] = CanceledEntry
                          /\ ~SlotIs(A1, f.ent)

\* the field of the Entry e that the CleanOption opt selects on
Selected(e, opt) == IF opt = Objects THEN e.Object ELSE e.Error

\* C14: a Clean given only Objects, or only Errors, removes exactly the slots
\* whose entry is complete with that field set; every other slot keeps its
\* entry, and the entry its content and its waiters; no slot is added, no
\* factory's context is cancelled, no channel is sent to or closed, and no
\* Future changes.
C14_CleanKinds ==
    [][\A opts \in KindOpts : Clean(opts) =>
         /\ \A i \in DOMAIN indexes :
              /\ DOMAIN indexes'[i] \subseteq DOMAIN indexes[i]
              /\ \A kv \in DOMAIN indexes[i] :
                   LET h == indexes[i][kv] IN
                   IF IsComplete(h) /\ Selected(ents[heap[h].content], opts[1]) # "nil"
                   THEN ~Has(indexes'[i], kv)
                   ELSE /\ Has(indexes'[i], kv)
                        /\ indexes'[i][kv] = h
                        /\ heap'[h] = heap[h]
                        /\ IsComplete(h) =>
                             ents'[heap'[h].content] = ents[heap[h].content]
         /\ tasks' = tasks
         /\ chans' = chans
         /\ futures' = futures
         /\ halt' = halt]_vars

\* after a Clean: an entry is still pending with a Lookup waiting on its open,
\* empty channel and its factory running with its context not cancelled, the
\* permanent error is still cached under B2, and no object is cached
C14_Witness ==
    /\ last.op = "Clean"
    /\ Cached(B2, Failure(ErrPermanent, <<B2>>))
    /\ ~Has(indexes["B"], 1)
    /\ Has(indexes["A"], 1)
    /\ \E f \in futures :
         /\ SlotIs(A1, f.ent)
         /\ IsPending(f.ent)
         /\ f.cookie \in heap[f.ent].reqs
         /\ chans[f.cookie] = [buf |-> <<>>, closed |-> FALSE]
         /\ Has(tasks, f.ent) /\ ~tasks[f.ent].cancelled

\* C15 as stated: immediately after a Clean with no options no index has a slot.
C15_CleanClearsAll ==
    [][Clean(<<>>) => \A i \in DOMAIN indexes' : DOMAIN indexes'[i] = {}]_vars

C17_CancelFrame ==
    [][\A f \in futures :
         /\ FutureCancel(f) =>
              IF f.canceled THEN CacheUnchanged
              ELSE /\ futures' = (futures \ {f}) \cup
                                   {[f EXCEPT !.result = Nil, !.canceled = TRUE]}
                   /\ indexes' = indexes
                   /\ tasks' = tasks
                   /\ ents' = ents
                   /\ halt' = halt
                   /\ DOMAIN heap' = DOMAIN heap
                   /\ \A h \in DOMAIN heap :
                        heap'[h] = IF h = f.ent
                                   THEN [heap[h] EXCEPT !.reqs = heap[h].reqs \ {f.cookie}]
                                   ELSE heap[h]
                   /\ \A c \in DOMAIN chans \ {f.cookie} :
                        Has(chans', c) /\ chans'[c] = chans[c]
         /\ (Wait(f) /\ f.canceled) =>
              (last' = Result("Wait", "ErrFutureCanceled", "nil") /\ CacheUnchanged)
         /\ (Channel(f) /\ f.canceled) =>
              (last' = Result("Channel", "nil", "nil") /\ CacheUnchanged)]_vars

\* a Cancel has just run; a cancelled Future and one that is not refer to the
\* same pending entry, the cookie of the second is still among its waiters, and
\* the factory runs with its context not cancelled
C17_Witness ==
    /\ last.op = "Cancel"
    /\ \E g \in futures : \E f \in futures :
         /\ g.canceled /\ g.result = Nil
         /\ IsPending(g.ent)
         /\ f.ent = g.ent /\ ~f.canceled
         /\ g.cookie \notin heap[g.ent].reqs
         /\ f.cookie \in heap[g.ent].reqs
         /\ Has(tasks, g.ent) /\ ~tasks[g.ent].cancelled

\* C18: a Wait whose context is done first returns the error of the context and
\* changes nothing, so the cookie of the Future stays among the waiters; a Wait
\* on a Future that is not cancelled returns only when the entry is complete
\* and returns the Object and Error of its content; the Future is kept, a
\* further Wait on it would return at once, and would return the same Object
\* and Error.
C18_WaitAgain ==
    [][\A f \in futures :
         /\ WaitCanceled(f) =>
              (last' = Result("WaitCanceled", ErrCanceled, "nil") /\ CacheUnchanged)
         /\ (Wait(f) /\ ~f.canceled) =>
              /\ IsComplete(f.ent)
              /\ last' = Result("Wait", ents[heap[f.ent].content].Error,
                                ents[heap[f.ent].content].Object)
              /\ f \in futures'
              /\ WaitReady(f)'
              /\ WaitOutcome(f)' = [obj |-> last'.obj, err |-> last'.err]]_vars

\* a Wait has returned the object that the factory delivered on the channel of
\* a Future; the Future is still held and its channel is now closed and empty
C18_Witness ==
    /\ last = Result("Wait", "nil", "o1")
    /\ \E f \in futures :
         /\ ~f.canceled /\ f.result # Nil
         /\ chans[f.result] = [buf |-> <<>>, closed |-> TRUE]
         /\ Cached(A1, Object("o1", <<A1>>))
         /\ SlotIs(A1, f.ent)

\* the call is a Lookup or a LookupFuture with the options opts
LooksUp(opts) == Lookup(opts) \/ LookupFuture(opts)

\* C19 as stated: a Lookup or LookupFuture with SearchCache that returns (it
\* does not panic) has started no factory and leaves every index with the
\* slots it had.
C19_SearchKeepsSlots ==
    [][\A opts \in SearchOnly : (LooksUp(opts) /\ halt' = "none") =>
         /\ DOMAIN tasks' = DOMAIN tasks
         /\ \A i \in DOMAIN indexes : DOMAIN indexes'[i] = DOMAIN indexes[i]]_vars

\* C19, amended: a Lookup or LookupFuture with SearchCache starts no factory.
\* When no Entry is supplied, or the slot of the key is present, it changes no
\* index, entry, channel or factory and registers no waiter: with the slot
\* absent or its entry pending it returns ErrNotCached and no Future; with the
\* entry complete Lookup returns the Object and Error of its content and
\* LookupFuture a Future without a channel over that entry. When an Entry is
\* supplied and the slot of its first key is absent, the call does what the same
\* call without SearchCache does.
C19_SearchOnly ==
    [][\A opts \in SearchOnly :
         \A o \in {procLookupOpts(opts).o} : \A k \in {o.key[1]} :
           /\ LooksUp(opts) => DOMAIN tasks' = DOMAIN tasks
           /\ (LooksUp(opts) /\ (o.ent = <<>> \/ Has(indexes[k.Index], k.Key))) =>
                /\ indexes' = indexes /\ heap' = heap /\ ents' = ents
                /\ chans' = chans /\ tasks' = tasks /\ reqCounter' = reqCounter
                /\ halt' = halt
                /\ AbsentOrPending(k) =>
                     (last'.err = "ErrNotCached" /\ last'.obj = "nil" /\ futures' = futures)
                /\ (~AbsentOrPending(k) /\ Lookup(opts)) =>
                     \A h \in {indexes[k.Index][k.Key]} :
                        /\ last' = Result("Lookup", ents[heap[h].content].Error,
                                          ents[heap[h].content].Object)
                        /\ futures' = futures
                /\ (~AbsentOrPending(k) /\ LookupFuture(opts)) =>
                     \A h \in {indexes[k.Index][k.Key]} :
                        /\ last' = Result("LookupFuture", "nil", "nil")
                        /\ futures' = futures \cup
                             {Future([ent |-> h, result |-> Nil, cookie |-> 0,
                                      canceled |-> FALSE], k, "held")}
           /\ (o.ent # <<>> /\ ~Has(indexes[k.Index], k.Key)) =>
                /\ Lookup(opts) => Lookup(<<opts[1]>>)
                /\ LookupFuture(opts) => LookupFuture(<<opts[1]>>)]_vars

\* a Lookup has just returned ErrNotCached while the entry of A1 is pending:
\* its factory runs, and the only waiter of the entry is the one Lookup that
\* started the factory and still waits
C19_Witness ==
    /\ last = Result("Lookup", "ErrNotCached", "nil")
    /\ reqCounter = 1
    /\ Has(indexes["A"], 1)
    /\ IsPending(indexes["A"][1])
    /\ heap[indexes["A"][1]].reqs = {1}
    /\ Has(tasks, indexes["A"][1])
    /\ \E f \in futures : f.pc = "wait" /\ f.cookie = 1

\* C20 as stated: a Lookup with a supplied Entry whose first key has no slot
\* returns the Object and Error of that Entry, whichever Entry of
\* SearchSupplied it is, and does not panic.
C20_SuppliedEntryReturned ==
    [][\A e \in SearchSupplied :
         (Lookup(<<ByEntry(e)>>) /\ ~Has(indexes[e.Keys[1].Index], e.Keys[1].Key)) =>
            (halt' = "none" /\ last' = Result("Lookup", e.Error, e.Object))]_vars

\* C21 as stated: when a factory returns nil, manufacture finishes without a
\* panic and changes no slot; the pending entry that started the factory stays
\* in its slot, pending, with the waiters it had.
C21_NilTolerated ==
    [][\A t \in DOMAIN tasks :
         (manufacture(t, NilResult) /\ SlotIs(tasks[t].key, t) /\ IsPending(t)) =>
            /\ halt' = "none"
            /\ indexes' = indexes
            /\ heap' = heap
            /\ chans' = chans]_vars

\* C22 as stated: when a factory returns nil, the pending entry that started
\* it is no longer in its slot afterwards and no index has a slot it did not
\* have.
C22_NilDiscards ==
    [][\A t \in DOMAIN tasks :
         (manufacture(t, NilResult) /\ SlotIs(tasks[t].key, t) /\ IsPending(t)) =>
            /\ \A k \in {tasks[t].key} : ~Has(indexes'[k.Index], k.Key)
            /\ \A i \in DOMAIN indexes : DOMAIN indexes'[i] \subseteq DOMAIN indexes[i]]_vars

\* the key k is one of the keys in the sequence keys
Names(keys, k) == \E n \in 1..Len(keys) : keys[n] = k

\* C23: an Evict by a key of a declared index returns no error and changes no
\* entry, waiter, channel, Future or factory. With the slot of the key absent or
\* pending it changes no index. With the slot complete it removes exactly the
\* slots that a key in the Keys of that entry names and that hold a complete
\* entry; slots with a pending entry, and all other slots, keep their entry;
\* and the same Evict called again right after would change no index.
C23_EvictFrame ==
    [][\A k \in EvictKeys \cap {A1, B1} : Evict(<<ByKey(k)>>) =>
         /\ last' = Result("Evict", "nil", "nil")
         /\ halt' = halt
         /\ tasks' = tasks /\ chans' = chans /\ futures' = futures
         /\ \A h \in DOMAIN heap' : Has(heap, h) /\ heap'[h] = heap[h]
         /\ \A h \in DOMAIN heap : IsPending(h) => Has(heap', h)
         /\ AbsentOrPending(k) => indexes' = indexes
         /\ ~AbsentOrPending(k) =>
              \A keys \in {ents[heap[indexes[k.Index][k.Key]].content].Keys} :
                \A i \in DOMAIN indexes :
                  /\ DOMAIN indexes'[i] \subseteq DOMAIN indexes[i]
                  /\ \A kv \in DOMAIN indexes[i] :
                       IF Names(keys, Key(i, kv)) /\ IsComplete(indexes[i][kv])
                       THEN ~Has(indexes'[i], kv)
                       ELSE Has(indexes'[i], kv) /\ indexes'[i][kv] = indexes[i][kv]
         /\ EvictWouldLeave(k)' = indexes']_vars

\* an Evict has just run: the object o1, whose Keys name A1, the undeclared
\* index and B1, is gone from A1, while the pending entry under B1 is in its
\* slot with its waiting Lookup and its factory; a Future taken before still
\* refers to the evicted entry
C23_Witness ==
    /\ last = Result("Evict", "nil", "nil")
    /\ ~Has(indexes["A"], 1)
    /\ Has(indexes["B"], 1)
    /\ IsPending(indexes["B"][1])
    /\ Has(tasks, indexes["B"][1])
    /\ \E f \in futures : f.ent = indexes["B"][1] /\ f.cookie \in heap[f.ent].reqs
    /\ \E f \in futures :
         /\ IsComplete(f.ent)
         /\ ents[heap[f.ent].content] = Object("o1", <<A1, U1, B1>>)
         /\ f.ent \notin Slots(indexes)

\* the keys of index i whose slot holds a complete entry
CompleteKeys(i) == {kv \in DOMAIN indexes[i] : IsComplete(indexes[i][kv])}

\* C24: Contents of an undeclared index returns ErrBadIndex; of a declared one
\* it returns, in some order, the content of the entry of every slot whose
\* entry is complete, one per slot, and nothing for a pending entry; it changes
\* nothing. ContentsFuture of an undeclared index returns ErrBadIndex and
\* changes nothing; of a declared one it returns, in some order, one Future per
\* slot over the entry of that slot: for a pending entry with a new cookie,
\* added to the waiters of the entry, and a new open channel; for a complete
\* entry with no cookie and no channel, the entry staying as it was. Indexes,
\* contents and factories stay as they were.
C24_Contents ==
    [][\A i \in IndexIds :
         /\ Contents(i) =>
              /\ CacheUnchanged
              /\ IF ~Has(indexes, i)
                 THEN last' = ListResult("Contents", "ErrBadIndex", <<>>)
                 ELSE /\ last'.op = "Contents" /\ last'.err = "nil"
                      /\ \E order \in Orders(CompleteKeys(i)) :
                           last'.list = [n \in 1..Cardinality(CompleteKeys(i)) |->
                                           ents[heap[indexes[i][order[n]]].content]]
         /\ ContentsFuture(i) =>
              /\ indexes' = indexes /\ tasks' = tasks /\ ents' = ents /\ halt' = halt
              /\ IF ~Has(indexes, i)
                 THEN last' = ListResult("ContentsFuture", "ErrBadIndex", <<>>)
                      /\ CacheUnchanged
                 ELSE /\ last'.op = "ContentsFuture" /\ last'.err = "nil"
                      /\ Len(last'.list) = Cardinality(DOMAIN indexes[i])
                      /\ futures' = futures \cup {last'.list[n] : n \in 1..Len(last'.list)}
                      /\ \E order \in Orders(DOMAIN indexes[i]) :
                           \A n \in 1..Len(last'.list) :
                             \A f \in {last'.list[n]} : \A h \in {indexes[i][order[n]]} :
                               /\ f.ent = h /\ ~f.canceled
                               /\ IF IsPending(h)
                                  THEN /\ f.cookie > reqCounter
                                       /\ f.result = f.cookie
                                       /\ chans'[f.cookie] = [buf |-> <<>>, closed |-> FALSE]
                                       /\ heap'[h].content = Nil
                                       /\ heap'[h].reqs = heap[h].reqs \cup {f.cookie}
                                  ELSE /\ f.cookie = 0 /\ f.result = Nil
                                       /\ heap'[h] = heap[h]
                      /\ \A c \in DOMAIN chans : Has(chans', c) => chans'[c] = chans[c]]_vars

\* a ContentsFuture has just returned two Futures for the two slots of an
\* index, one on a pending entry, whose waiters are now the cookie of the
\* LookupFuture that started its factory and the new cookie, and one on a
\* complete entry
C24_Witness ==
    /\ last.op = "ContentsFuture"
    /\ last.err = "nil"
    /\ Len(last.list) = 2
    /\ \E m, n \in 1..2 :
         /\ IsPending(last.list[m].ent)
         /\ heap[last.list[m].ent].reqs = {1, 2}
         /\ last.list[m].cookie = 2
         /\ IsComplete(last.list[n].ent)
         /\ last.list[n].cookie = 0
    /\ {last.list[1], last.list[2]} \subseteq futures

\* the call that would leave the cache st returns, without a panic and without
\* blocking, and every factory that is running is still running after it
ReturnsWhileBlocked(st) == st.halt = "none" /\ DOMAIN st.tk = DOMAIN tasks

NextCancel ==
    \/ LookupFuture(<<ByKey(A1)>>)
    \/ \E f \in futures : Wait(f)
    \/ \E f \in futures : WaitCanceled(f)
    \/ \E f \in futures : FutureCancel(f)
    \/ \E f \in futures : Release(f)
    \/ \E t \in DOMAIN tasks : manufacture(t, <<Object("o1", <<A1>>)>>)
    \/ \E t \in DOMAIN tasks : manufacture(t, <<Object("o2", <<A2>>)>>)
    \/ Clean(<<Pending>>)
    \/ Reindex(<<A1>>, <<ByKey(A2)>>)
    \/ Lookup(<<ByEntry(Object("o3", <<A1>>))>>)
SpecCancel == Init /\ [][NextCancel]_vars

\* C26: the context of a running factory is cancelled exactly when the
\* pending entry made for it has been completed, and the cancel function of
\* an entry is there exactly while the entry is pending; so no step that
\* leaves the entry pending (a waiter whose context ends, Future.Cancel)
\* cancels the factory, and every step that completes it does.
C26_CancelledIffComplete ==
    /\ \A t \in DOMAIN tasks :
         /\ Has(heap, t)
         /\ tasks[t].cancelled <=> heap[t].content # Nil
    /\ \A h \in DOMAIN heap : heap[h].cancel <=> heap[h].content = Nil

\* a factory still runs whose pending entry was completed with o2 by the
\* Reindex onto A1, so that its context is cancelled, and a waiter of that
\* entry holds a Future it has cancelled
C26_Witness ==
    \E t \in DOMAIN tasks :
        /\ tasks[t].cancelled
        /\ heap[t].content # Nil
        /\ ents[heap[t].content].Object = "o2"
        /\ \E f \in futures : f.ent = t /\ f.canceled /\ f.pc = "held"

\* C27: a Lookup given a key and one WithContext option is accepted by the
\* processing of its options, that is, it does not return DuplicateOption,
\* and it starts or joins the wait for the entry of the key.
C27_WithContextAccepted ==
    [][Lookup(<<ByKey(A1), WithContext>>) =>
          /\ last'.err # "ErrDuplicateOption"
          /\ Has(indexes', "A") /\ Has(indexes'["A"], 1)]_vars

\* ---------------------------------------------------------------------
\* Calls with well-formed and ill-formed option lists: a key given once, twice
\* or not at all, SearchCache and WithContext given once or twice, and an
\* Entry with no keys
OptionLists ==
    {<<>>, <<SearchCache>>, <<WithContext>>, <<ByEntry(Object("o1", <<>>))>>,
     <<ByKey(A1)>>, <<ByEntry(Object("o1", <<A1>>))>>,
     <<ByKey(A1), SearchCache>>, <<ByKey(A1), WithContext>>,
     <<ByKey(A1), ByKey(A1)>>, <<ByKey(A1), ByEntry(Object("o1", <<A1>>))>>,
     <<ByKey(A1), SearchCache, SearchCache>>,
     <<ByKey(A1), WithContext, WithContext>>}
NextOptions ==
    \/ \E opts \in OptionLists : Lookup(opts)
    \/ \E opts \in OptionLists : LookupFuture(opts)
    \/ \E opts \in OptionLists : Evict(opts)
    \/ \E opts \in OptionLists : Reindex(<<A1>>, opts)
    \/ \E f \in futures : LookupReturn(f)
    \/ \E f \in futures : Release(f)
    \/ \E t \in DOMAIN tasks : manufacture(t, <<Object("o1", <<A1>>)>>)
SpecOptions == Init /\ [][NextOptions]_vars

\* how many options of the list are of one of the kinds
Count(opts, kinds) == Cardinality({n \in DOMAIN opts : opts[n].t \in kinds})
\* the list gives a key twice, SearchCache twice or WithContext twice
Repeats(opts) ==
    \/ Count(opts, {"ByKey", "ByEntry"}) > 1
    \/ Count(opts, {"SearchCache"}) > 1
    \/ Count(opts, {"WithContext"}) > 1
\* the list gives no key: no ByKey, and no ByEntry of an Entry with a key
Keyless(opts) ==
    \A n \in DOMAIN opts :
        /\ opts[n].t # "ByKey"
        /\ opts[n].t = "ByEntry" => opts[n].ent[1].Keys = <<>>
\* the step is one of the four calls that take lookup options, made with opts
TakesOptions(opts) ==
    Lookup(opts) \/ LookupFuture(opts) \/ Evict(opts) \/ Reindex(<<A1>>, opts)
\* the call has left the cache and every Future as they were
CacheUntouched ==
    UNCHANGED <<indexes, heap, ents, chans, reqCounter, tasks, futures, halt>>

\* C28: a Lookup, LookupFuture, Evict or Reindex whose option list repeats an
\* option (a second key, a second SearchCache, a second WithContext) returns
\* DuplicateOption and changes nothing, and one whose list repeats no option
\* does not return DuplicateOption.
C28_DuplicateOption ==
    [][\A opts \in OptionLists :
          TakesOptions(opts) =>
              IF Repeats(opts)
              THEN last'.err = "ErrDuplicateOption" /\ CacheUntouched
              ELSE last'.err # "ErrDuplicateOption"]_vars

\* C29: a Lookup, LookupFuture, Evict or Reindex whose option list gives no
\* key returns NoKey and changes nothing.
C29_NoKey ==
    [][\A opts \in OptionLists :
          (Keyless(opts) /\ TakesOptions(opts)) =>
              last'.err = "ErrNoKey" /\ CacheUntouched]_vars

Index(i, f) == [Index |-> i, Factory |-> f]

\* New without the test for an index declared twice: the later one wins
RECURSIVE NewLastWins(_, _)
NewLastWins(decls, ix) ==
    IF decls = <<>> THEN [ix |-> ix, err |-> "nil"]
    ELSE IF ~Head(decls).Factory
    THEN [ix |-> EmptyMap, err |-> "ErrMissingFactory"]
    ELSE NewLastWins(Tail(decls), Put(ix, Head(decls).Index, EmptyMap))

\* the loop of New over the declarations, ix being fc.indexes so far
RECURSIVE NewIndexes(_, _)
NewIndexes(decls, ix) ==
    IF decls = <<>> THEN [ix |-> ix, err |-> "nil"]
    ELSE IF Has(ix, Head(decls).Index)
    THEN [ix |-> EmptyMap, err |-> "ErrDuplicateOption"]
    ELSE IF ~Head(decls).Factory
    THEN [ix |-> EmptyMap, err |-> "ErrMissingFactory"]
    ELSE NewIndexes(Tail(decls), Put(ix, Head(decls).Index, EmptyMap))

\* what New returns: the indexes of the new cache, or an error and no cache
New(decls) ==
    IF Len(decls) < 1 THEN [ix |-> EmptyMap, err |-> "ErrMissingIndex"]
    ELSE NewIndexes(decls, EmptyMap)

\* the program calls New; it goes on to use the cache only when New returned one
NewCache(decls) ==
    /\ halt = "nocache"
    /\ indexes' = New(decls).ix
    /\ halt' = IF New(decls).err = "nil" THEN "none" ELSE "nocache"
    /\ last' = Result("New", New(decls).err, "nil")
    /\ UNCHANGED <<heap, ents, chans, reqCounter, tasks, futures>>

\* the lists of declarations the program may give to New
Declarations ==
    {<<>>,
     <<Index("A", TRUE)>>, <<Index("B", TRUE)>>,
     <<Index("A", TRUE), Index("B", TRUE)>>,
     <<Index("A", TRUE), Index("A", TRUE)>>,
     <<Index("A", TRUE), Index("B", TRUE), Index("A", TRUE)>>,
     <<Index("A", FALSE)>>,
     <<Index("A", TRUE), Index("B", FALSE)>>,
     <<Index("A", FALSE), Index("A", TRUE)>>,
     <<Index("A", TRUE), Index("A", FALSE)>>}

\* no cache yet
InitNew ==
    /\ indexes = EmptyMap
    /\ heap = EmptyMap
    /\ ents = EmptyMap
    /\ chans = EmptyMap
    /\ reqCounter = 0
    /\ tasks = EmptyMap
    /\ futures = {}
    /\ halt = "nocache"
    /\ last = Result("start", "nil", "nil")

NextNew ==
    \/ \E decls \in Declarations : NewCache(decls)
    \/ \E k \in {A1, B1, U1} : LookupFuture(<<ByKey(k)>>)
    \/ \E f \in futures : Release(f)
    \/ \E t \in DOMAIN tasks : manufacture(t, <<Object("o1", <<A1, B1>>)>>)
    \/ \E k \in {A1, B1} : Evict(<<ByKey(k)>>)
    \/ Clean(<<>>)
    \/ Reindex(<<A2, B2>>, <<ByKey(A1)>>)
SpecNew == InitNew /\ [][NextNew]_vars

\* C31: New returns MissingIndex for no declaration; otherwise, when no two
\* declarations name one index and each has a factory, it returns a cache
\* whose indexes are exactly the declared ones, each empty; otherwise it
\* returns no cache and DuplicateOption or MissingFactory, the former only
\* when an index is declared twice and the latter only when a factory is
\* missing.  Once the cache is made no operation adds or removes an index.
C31_New ==
    [][/\ \A decls \in Declarations :
            NewCache(decls) =>
              LET twice == \E m, n \in DOMAIN decls :
                               m # n /\ decls[m].Index = decls[n].Index
                  nofac == \E n \in DOMAIN decls : ~decls[n].Factory
              IN IF decls = <<>>
                 THEN last'.err = "ErrMissingIndex" /\ halt' = "nocache"
                 ELSE IF ~twice /\ ~nofac
                 THEN /\ last'.err = "nil" /\ halt' = "none"
                      /\ DOMAIN indexes' = {decls[n].Index : n \in DOMAIN decls}
                      /\ \A i \in DOMAIN indexes' : indexes'[i] = EmptyMap
                 ELSE /\ halt' = "nocache"
                      /\ \/ twice /\ last'.err = "ErrDuplicateOption"
                         \/ nofac /\ last'.err = "ErrMissingFactory"
       /\ halt = "none" => DOMAIN indexes' = DOMAIN indexes]_vars

\* a cache made with the one index A has run operations that name A and B:
\* A holds o1 under key 1, and there is still no index B
C31_Witness ==
    /\ DOMAIN indexes = {"A"}
    /\ Cached(A1, Object("o1", <<A1, B1>>))
    /\ last.op = "Evict" /\ last.err = "ErrBadIndex"

\* C32: in every state each slot present in an index holds the address of an
\* entry, which is pending or complete, never the nil pointer.
C32_NoEmptySlot ==
    \A i \in DOMAIN indexes : \A k \in DOMAIN indexes[i] :
        IsPending(indexes[i][k]) \/ IsComplete(indexes[i][k])

\* the content of the entry in the slot of key k of index i, Nil when there is none
ContentAt(i, k) ==
    IF Has(indexes, i) /\ Has(indexes[i], k) /\ indexes[i][k] # Nil
    THEN heap[indexes[i][k]].content
    ELSE Nil
\* the contents of the complete entries held in slots
SlotContents ==
    {ContentAt(i, k) : i \in DOMAIN indexes, k \in KeyValues \cup {NilKey}} \ {Nil}
\* every slot that holds the content c is named by the Keys of c
NoSlotOutsideKeys(c) ==
    \A i \in DOMAIN indexes : \A k \in DOMAIN indexes[i] :
        ContentAt(i, k) = c =>
            \E n \in DOMAIN ents[c].Keys : ents[c].Keys[n] = Key(i, k)
\* every key of the Keys of c, of a declared index, has a slot that holds c
EveryKeyHolds(c) ==
    \A n \in DOMAIN ents[c].Keys :
        Has(indexes, ents[c].Keys[n].Index) =>
            ContentAt(ents[c].Keys[n].Index, ents[c].Keys[n].Key) = c

\* C33 as stated: for the content of every complete entry held in a slot, each
\* key of its Keys in a declared index has a slot holding that content, and no
\* slot outside its Keys holds it.
C33_KeysExact ==
    \A c \in SlotContents : EveryKeyHolds(c) /\ NoSlotOutsideKeys(c)

\* C33, amended: for the content of every complete entry held in a slot, no
\* slot outside its Keys holds it.
C33_KeysCover ==
    \A c \in SlotContents : NoSlotOutsideKeys(c)

\* the cache holds an entry with two keys in the slots of both, and another
\* entry, o3, with two keys in the slot of one of them only, the other slot
\* being held by the entry that was there before o3 was inserted
C33_Witness ==
    \E c, d \in SlotContents :
        /\ Len(ents[c].Keys) = 2
        /\ EveryKeyHolds(c)
        /\ ents[d].Object = "o3"
        /\ ContentAt("B", 2) = d
        /\ ContentAt("A", 2) \notin {d, Nil}

\* ---------------------------------------------------------------------
\* A supplied Entry whose Keys name one index twice, next to an Entry with
\* one key per index made by a factory; Reindex and Evict on them
NextSlots ==
    \/ Lookup(<<ByKey(A1)>>)
    \/ \E f \in futures : LookupReturn(f)
    \/ \E t \in DOMAIN tasks : manufacture(t, <<Object("o2", <<A1, B1>>)>>)
    \/ Lookup(<<ByEntry(Object("o1", <<A1, A2>>))>>)
    \/ Evict(<<ByKey(A1)>>)
    \/ Reindex(<<A2, B2>>, <<ByKey(A1)>>)
    \/ Reindex(<<A2>>, <<ByKey(A1)>>)
SpecSlots == Init /\ [][NextSlots]_vars

\* C34 as stated: no entry is held by two slots of one index.
C34_AtMostOneSlot ==
    \A i \in DOMAIN indexes : \A k1, k2 \in DOMAIN indexes[i] :
        (k1 # k2 /\ indexes[i][k1] # Nil) => indexes[i][k1] # indexes[i][k2]

\* C34, amended: an entry held by two slots of one index is complete and the
\* Keys of its content name that index more than once.
C34_OneSlotPerNamedKey ==
    \A i \in DOMAIN indexes : \A k1, k2 \in DOMAIN indexes[i] :
        (k1 # k2 /\ indexes[i][k1] # Nil /\ indexes[i][k1] = indexes[i][k2]) =>
            /\ IsComplete(indexes[i][k1])
            /\ Cardinality({n \in DOMAIN ents[heap[indexes[i][k1]].content].Keys :
                               ents[heap[indexes[i][k1]].content].Keys[n].Index = i}) > 1

\* a Reindex has just moved o2, whose Keys name A and B once each, to the key
\* 2 of both: one entry is held by one slot of A and one slot of B
C34_Witness ==
    /\ last = Result("Reindex", "nil", "nil")
    /\ DOMAIN indexes["A"] = {2} /\ DOMAIN indexes["B"] = {2}
    /\ indexes["A"][2] = indexes["B"][2]
    /\ Cached(A2, Object("o2", <<A2, B2>>))

\* C35: an entry that is complete stays as it is for as long as it exists:
\* no step changes its content, its waiters or its cancel function, so an
\* entry becomes complete once and never pending again, and a complete call
\* on it reports false and changes nothing.
C35_CompleteOnce ==
    [][\A h \in DOMAIN heap :
         heap[h].content # Nil =>
             /\ Has(heap', h) => heap'[h] = heap[h]
             /\ \A e \in DOMAIN ents :
                  complete(Cache, h, e) = [st |-> Cache, remove |-> FALSE]]_vars

\* a factory has just returned o1 for the key A1, whose slot held the
\* complete entry of the supplied o3: complete ran on it and it still holds o3
C35_Witness ==
    /\ last = Result("manufacture", "nil", "nil")
    /\ Cached(A1, Object("o3", <<A1>>))
    /\ ~Has(indexes["A"], 2)

\* C36: in every state a complete entry has no waiter registered and no cancel
\* function, so every registered waiter is on a pending entry; and the
\* channel of a Future whose entry is complete is closed: it was registered
\* while the entry was pending, and complete delivered to it and dropped it.
C36_CompleteHasNoWaiters ==
    /\ \A h \in DOMAIN heap :
         heap[h].content # Nil => (heap[h].reqs = {} /\ ~heap[h].cancel)
    /\ \A f \in futures :
         (f.result # Nil /\ IsComplete(f.ent)) => chans[f.result].closed

\* the entry of A1 is complete with o1: a Future made while it was pending has
\* its closed channel with the Entry in it, a Future made afterwards has no
\* channel, and the entry has no waiter left
C36_Witness ==
    /\ Cached(A1, Object("o1", <<A1>>))
    /\ \E f, g \in futures :
         /\ f.ent = indexes["A"][1] /\ g.ent = f.ent
         /\ f.result # Nil /\ chans[f.result].closed /\ chans[f.result].buf # <<>>
         /\ g.result = Nil /\ ~g.canceled
         /\ heap[f.ent].reqs = {}

\* the waiters registered in the entries of hp, each as <<entry, cookie>>
SlotsOf(hp) == UNION {{<<h, c>> : c \in hp[h].reqs} : h \in DOMAIN hp}
\* the waiter s is that of a Future of futs that is not cancelled: one a caller
\* holds, or the one of a Lookup that waits
OwnedIn(futs, s) ==
    \E f \in futs : f.ent = s[1] /\ f.cookie = s[2] /\ ~f.canceled
\* the Lookup that waited on f has returned without its waiter left behind
ReturnedClean(f) ==
    /\ LookupReturn(f)
    /\ f \notin futures'
    /\ \A s \in SlotsOf(heap') : s[2] # f.cookie

C38_EvictOnlyOwn ==
    [][\A k \in {A1, B1} :
         (Evict(<<ByKey(k)>>) /\ ContentAt(k.Index, k.Key) # Nil) =>
             \A i \in DOMAIN indexes : \A kv \in DOMAIN indexes[i] :
                 ~Has(indexes'[i], kv) =>
                     ContentAt(i, kv) = ContentAt(k.Index, k.Key)]_vars

-----------------------------------------------------------------------------
(* Lookups of A1 whose factory returns an Entry that names A1 or an Entry  *)
(* that names only A2, under a scheduler that lets every goroutine that    *)
(* can run take its step: the factory goroutine and the waiting Lookup     *)

LiveResults == {<<Object("o1", <<A1>>)>>, <<Object("o2", <<A2>>)>>}

\* the goroutine started by lookup calls the factory and inserts its Entry
FactoryReturns ==
    \E t \in DOMAIN tasks, res \in LiveResults : manufacture(t, res)

\* a Lookup blocked in wait receives what was sent on its channel
Delivery == \E f \in futures : LookupReturn(f)

NextLive ==
    \/ Lookup(<<ByKey(A1)>>)
    \/ LookupFuture(<<ByKey(A1)>>)
    \/ Delivery
    \/ \E f \in futures : Wait(f)
    \/ \E f \in futures : Release(f)
    \/ FactoryReturns
    \/ Evict(<<ByKey(A1)>>)
    \/ Clean(<<Pending>>)

SpecLive ==
    Init /\ [][NextLive]_vars /\ WF_vars(FactoryReturns) /\ WF_vars(Delivery)

\* the Lookup f waits on a pending entry whose factory goroutine has returned
FactoryReturned(f) ==
    /\ halt = "none"
    /\ f.pc = "wait"
    /\ IsPending(f.ent)
    /\ ~Has(tasks, f.ent)

Blocked == \E f \in futures : FactoryReturned(f)

\* C39 as stated: under fair scheduling, a Lookup that waits on a pending entry
\* whose factory goroutine has returned an Entry does not wait forever: the
\* entry is completed or removed and the Lookup receives a delivery.
C39_NoLookupBlocksForever == Blocked ~> ~Blocked


\* C40: complete never blocks on a send: a waiter channel is made empty and
\* open, never holds more than ChanCap = 1 Entry, and is sent to at most once;
\* the step that sends finds it empty and open and leaves it closed with that
\* one Entry, and once closed it is never sent to nor closed again (it can only
\* be received from); no step ends blocked in a send.
C40_SendOnce ==
    [][/\ halt' # "deadlock"
       /\ \A c \in DOMAIN chans' :
            /\ Len(chans'[c].buf) <= ChanCap
            /\ IF ~Has(chans, c)
               THEN chans'[c] = [buf |-> <<>>, closed |-> FALSE]
               ELSE IF chans[c].closed
               THEN /\ chans'[c].closed
                    /\ Len(chans'[c].buf) <= Len(chans[c].buf)
               ELSE \/ chans'[c] = chans[c]
                    \/ /\ chans[c].buf = <<>>
                       /\ chans'[c].closed
                       /\ Len(chans'[c].buf) = 1]_vars

\* both factories started for A1 have returned, the second one onto the entry
\* the first had completed: the channel made before Clean(Pending) holds the
\* Canceled Entry, the channel made after it holds o1, each closed with its
\* one Entry
C40_Witness ==
    /\ halt = "none"
    /\ last = Result("manufacture", "nil", "nil")
    /\ DOMAIN tasks = {}
    /\ Cached(A1, Object("o1", <<A1>>))
    /\ ~Has(indexes["A"], 2)
    /\ \E f, g \in futures :
         /\ f.cookie = 1 /\ g.cookie = 2
         /\ chans[f.cookie] = [buf |-> <<CanceledEntry>>, closed |-> TRUE]
         /\ chans[g.cookie] = [buf |-> <<Object("o1", <<A1>>)>>, closed |-> TRUE]

====
